---------------------------- MODULE Spec2Model ----------------------------
(***************************************************************************)
(* A model of the HTTP client of fanfic-tools (HttpClient, HttpRequest,    *)
(* HttpResponse): the configuration and interceptor merge algorithms, the  *)
(* class / instance / fork lineage, and the send pipeline.                 *)
(*                                                                         *)
(* The specifications of the module:                                       *)
(*   MergeSpec    the pure merge functions applied to drawn inputs         *)
(*   LineageSpec  class statics, instances, forks and mutations on a heap  *)
(*   Spec         the send pipeline, one atomic step per segment between   *)
(*                two suspension points (await) of the code                *)
(*   BodySpec     text / json / resolveBody called on one response         *)
(*   SharingSpec  sends in flight at once, their interceptors mutating     *)
(*   CacheSpec    the scraper's HTML cache on the file system              *)
(*   LayersSpec   definitions on three classes, clients, and what a        *)
(*                client's send runs                                       *)
(*   SnapshotSpec sends in flight while classes and clients are changed    *)
(***************************************************************************)
EXTENDS Integers, Sequences, FiniteSets, TLC

VARIABLES
  args,      \* MergeSpec: the arguments drawn for one call of a merge function
  result,    \* MergeSpec: what the call returned, or Pending
  heap,      \* LineageSpec: the objects, by address
  statics,   \* LineageSpec: each class's own static `defaults` / `interceptors`
  instances, \* LineageSpec: the clients constructed so far
  budget,    \* LineageSpec: how many class-level definitions and mutations happened
  last,      \* LineageSpec: the operation that led to this state (history)
  site,      \* Spec: the class and the client a send is made on
  call,      \* Spec: one send call: where it stands and what it did so far
  res,       \* BodySpec: a response, the reads of its body and the calls made on it
  flights,   \* SharingSpec: the sends in flight (with heap, statics, instances)
  cache      \* CacheSpec: the cache directory, the file system and the last operation

mergeVars == <<args, result>>
lineageVars == <<heap, statics, instances, budget, last>>
sendVars == <<site, call>>
bodyVars == <<res>>
sharingVars == <<flights>>
cacheVars == <<cache>>
vars ==
  <<args, result, heap, statics, instances, budget, last, site, call, res, flights, cache>>

\* What the actions of one specification leave alone.
notMerge == <<lineageVars, sendVars, bodyVars, sharingVars, cacheVars>>
notLineage == <<mergeVars, sendVars, bodyVars, sharingVars, cacheVars>>
notSend == <<mergeVars, lineageVars, bodyVars, sharingVars, cacheVars>>
notBody == <<mergeVars, lineageVars, sendVars, sharingVars, cacheVars>>
notSharing == <<statics, instances, budget, last, mergeVars, sendVars, bodyVars, cacheVars>>
notCache == <<mergeVars, lineageVars, sendVars, bodyVars, sharingVars>>

(***************************************************************************)
(* JavaScript values.  Every value is a record tagged with its type, so    *)
(* values of different types can be compared.  Absent is not a value: it   *)
(* marks a key that is no own property of an object.                       *)
(***************************************************************************)
Absent == [t |-> "absent"]
Undefined == [t |-> "undefined"]
Num(n) == [t |-> "number", v |-> n]
\* A string is the sequence of its characters.
Str(s) == [t |-> "string", v |-> s]
\* An array holds its items in order.
Arr(items) == [t |-> "array", items |-> items]
\* A native Headers collection: a map from lower-case names to values.
Hdrs(map) == [t |-> "Headers", map |-> map]
\* A plain object literal used as header map: its own entries in insertion order.
Plain(entries) == [t |-> "object", entries |-> entries]

\* JavaScript's ToBoolean, as `value || fallback` applies it.
Truthy(value) ==
  CASE value.t \in {"absent", "undefined", "null"} -> FALSE
    [] value.t = "number" -> value.v # 0
    [] value.t = "string" -> value.v # <<>>
    [] OTHER -> TRUE

getValueOrDefault(value, fallback) == IF Truthy(value) THEN value ELSE fallback

(***************************************************************************)
(* Headers.                                                                *)
(***************************************************************************)
\* The header names the model draws from, and the order Headers iterates in.
HeaderNames == {"a", "A", "b"}
LowerNames == <<"a", "b", "content-type">>

\* Headers normalises a name to lower case (byte-lowercase).
Lower(name) ==
  IF name = "A" THEN "a" ELSE IF name = "B" THEN "b"
  ELSE IF name = "Content-Type" THEN "content-type" ELSE name

EmptyMap == [n \in {} |-> "1"]

\* Headers.prototype.set: the name is lower-cased, the value replaces any old one.
HeadersSet(map, name, value) ==
  [n \in DOMAIN map \cup {Lower(name)} |-> IF n = Lower(name) THEN value ELSE map[n]]

\* Headers.prototype.delete.
HeadersDelete(map, name) == [n \in DOMAIN map \ {Lower(name)} |-> map[n]]

\* [...headers.entries()]: the pairs, sorted by name.
RECURSIVE EntriesFrom(_, _)
EntriesFrom(map, i) ==
  IF i > Len(LowerNames) THEN <<>>
  ELSE (IF LowerNames[i] \in DOMAIN map
          THEN <<(<<LowerNames[i], map[LowerNames[i]]>>)>>
          ELSE <<>>) \o EntriesFrom(map, i + 1)

HeadersEntries(map) == EntriesFrom(map, 1)

\* A mutant of setToHeaders: an entry never replaces a header already set.
RECURSIVE setToHeadersKeepFirst(_, _)
setToHeadersKeepFirst(map, entries) ==
  IF entries = <<>> THEN map
  ELSE setToHeadersKeepFirst(
         IF Lower(Head(entries)[1]) \in DOMAIN map THEN map
         ELSE HeadersSet(map, Head(entries)[1], Head(entries)[2]),
         Tail(entries))

RECURSIVE setToHeaders(_, _)
setToHeaders(map, entries) ==
  IF entries = <<>> THEN map
  ELSE setToHeaders(HeadersSet(map, Head(entries)[1], Head(entries)[2]), Tail(entries))

\* One side of mergeHeaders: a Headers instance, else any other object, else nothing.
applyHeaders(map, h) ==
  IF h.t = "Headers" THEN setToHeaders(map, HeadersEntries(h.map))
  ELSE IF h.t = "object" THEN setToHeaders(map, h.entries)
  ELSE map

mergeHeaders(a, b) == Hdrs(applyHeaders(applyHeaders(EmptyMap, a), b))

(***************************************************************************)
(* Configurations.  A configuration object is a function from its keys to  *)
(* values (Absent for a key it does not have).                             *)
(***************************************************************************)
RestKeys == {"delay", "path", "origin", "json", "method", "body"}
ConfigKeys == RestKeys \cup {"headers"}

EmptyConfig == [k \in ConfigKeys |-> Absent]

\* Reading a property: an absent key reads as undefined.
Get(obj, k) == IF obj[k] = Absent THEN Undefined ELSE obj[k]

\* A mutant of mergeConfig: Object.assign({ headers }, bRest, aRest), `a` wins.
mergeConfigFirstWins(a, b) ==
  [k \in ConfigKeys |->
     IF k = "headers" THEN mergeHeaders(Get(a, "headers"), Get(b, "headers"))
     ELSE IF a[k] # Absent THEN a[k] ELSE b[k]]

\* Object.assign({ headers }, aRest, bRest): every own key of b, then of a.
mergeConfig(a, b) ==
  [k \in ConfigKeys |->
     IF k = "headers" THEN mergeHeaders(Get(a, "headers"), Get(b, "headers"))
     ELSE IF b[k] # Absent THEN b[k] ELSE a[k]]

(***************************************************************************)
(* Interceptor bundles: { request, response }, each a list or undefined.   *)
(***************************************************************************)
Includes(list, x) == \E i \in 1..Len(list) : list[i] = x

\* for (const x of items) if (!acc.includes(x)) acc.push(x)
RECURSIVE pushUnique(_, _)
pushUnique(acc, items) ==
  IF items = <<>> THEN acc
  ELSE pushUnique(IF Includes(acc, Head(items)) THEN acc ELSE Append(acc, Head(items)),
                  Tail(items))

\* A mutant of mergeInterceptors: the lists are concatenated, nothing is removed.
mergeInterceptorsNoDedup(a, b) ==
  [request |-> Arr(getValueOrDefault(a.request, Arr(<<>>)).items
                   \o getValueOrDefault(b.request, Arr(<<>>)).items),
   response |-> Arr(getValueOrDefault(a.response, Arr(<<>>)).items
                    \o getValueOrDefault(b.response, Arr(<<>>)).items)]

mergeInterceptors(a, b) ==
  LET requestInterceptors == getValueOrDefault(a.request, Arr(<<>>)).items
                             \o getValueOrDefault(b.request, Arr(<<>>)).items
      responseInterceptors == getValueOrDefault(a.response, Arr(<<>>)).items
                              \o getValueOrDefault(b.response, Arr(<<>>)).items
  IN  [request |-> Arr(pushUnique(<<>>, requestInterceptors)),
       response |-> Arr(pushUnique(<<>>, responseInterceptors))]


(***************************************************************************)
(* MergeSpec: the merge functions as pure functions.  Init draws the       *)
(* arguments of one call, the actions apply the function.                  *)
(***************************************************************************)
MaxEntries == 2    \* entries of a plain header map
MaxList == 2       \* length of an interceptor list

Pending == [t |-> "pending"]
Done(v) == [t |-> "done", v |-> v]

SeqsUpTo(S, n) == UNION {[1..m -> S] : m \in 0..n}

HeaderValues == {"1", "2"}

\* Object literals: no key twice ("a" and "A" are two keys).
PlainMaps ==
  {Plain(es) : es \in {s \in SeqsUpTo(HeaderNames \X HeaderValues, MaxEntries) :
                         \A i, j \in 1..Len(s) : i # j => s[i][1] # s[j][1]}}

NativeHeaders == {Hdrs(m) : m \in UNION {[D -> HeaderValues] : D \in SUBSET {"a", "b"}}}

HeaderInputs == {Absent} \cup PlainMaps \cup NativeHeaders

DelayInputs == {Absent, Undefined, Num(0), Num(5)}
PathInputs == {Absent, Undefined, Str(<<"/">>), Str(<<"/", "i">>)}

\* Configurations that differ in their non-header keys.
LadderConfigs ==
  {[EmptyConfig EXCEPT !["delay"] = d, !["path"] = p, !["headers"] = h] :
     d \in DelayInputs, p \in PathInputs, h \in {Absent, Plain(<<(<<"a", "1">>)>>)}}

\* Configurations that differ in their headers.
HeaderConfigs == {[EmptyConfig EXCEPT !["headers"] = h] : h \in HeaderInputs}

\* Configurations for the three layers of an instance send: a key absent, set to
\* undefined or set, header maps plain and native with names in both cases.
LayerConfigs ==
  {[EmptyConfig EXCEPT !["delay"] = d, !["headers"] = h] :
     d \in {Absent, Undefined, Num(5)},
     h \in {Absent, Plain(<<(<<"a", "1">>)>>), Plain(<<(<<"A", "2">>), (<<"b", "1">>)>>),
            Plain(<<(<<"a", "2">>), (<<"A", "1">>)>>),
            Hdrs([n \in {"a", "b"} |-> "2"])}}

\* The interceptor functions, by identity.
Fns == {"f", "g", "h"}

ListInputs(n) == {Undefined} \cup {Arr(s) : s \in SeqsUpTo(Fns, n)}

\* Bundles whose `rich` list is drawn up to MaxList and whose other list up to 1.
BundleInputs(rich) ==
  {[request |-> q, response |-> p] :
     q \in ListInputs(IF rich = "request" THEN MaxList ELSE 1),
     p \in ListInputs(IF rich = "response" THEN MaxList ELSE 1)}

\* The state of LineageSpec while another specification runs.
LineageIdle ==
  /\ heap = <<>> /\ statics = <<>> /\ instances = <<>> /\ budget = <<>> /\ last = <<>>

\* The state of Spec while another specification runs.
SendIdle == site = <<>> /\ call = <<>>

\* The state of BodySpec while another specification runs.
BodyIdle == res = <<>>

\* The state of SharingSpec and of CacheSpec while another specification runs.
SharingIdle == flights = <<>>
CacheIdle == cache = <<>>

MergeInit ==
  /\ LineageIdle
  /\ SendIdle
  /\ BodyIdle /\ SharingIdle /\ CacheIdle
  /\ result = Pending
  /\ \/ \E a \in LadderConfigs, b \in LadderConfigs, c \in LadderConfigs :
          args = [op |-> "ladder", a |-> a, b |-> b, c |-> c]
     \/ \E a \in HeaderConfigs, b \in HeaderConfigs :
          args = [op |-> "headers", a |-> a, b |-> b]
     \/ \E a \in LayerConfigs, b \in LayerConfigs, c \in LayerConfigs :
          args = [op |-> "send", a |-> a, b |-> b, c |-> c]
     \/ \E rich \in {"request", "response"} :
          \E a \in BundleInputs(rich), b \in BundleInputs(rich) :
            args = [op |-> "interceptors", a |-> a, b |-> b]

\* mergeConfig(mergeConfig(A, B), C): class defaults, instance defaults, call.
CallMergeLadder ==
  /\ args.op = "ladder" /\ result = Pending
  /\ result' = Done(mergeConfig(mergeConfig(args.a, args.b), args.c))
  /\ UNCHANGED <<args, notMerge>>

CallMergeConfig ==
  /\ args.op = "headers" /\ result = Pending
  /\ result' = Done(mergeConfig(args.a, args.b))
  /\ UNCHANGED <<args, notMerge>>

CallMergeInterceptors ==
  /\ args.op = "interceptors" /\ result = Pending
  /\ result' = Done(mergeInterceptors(args.a, args.b))
  /\ UNCHANGED <<args, notMerge>>

\* A mutant of instanceSendConfig: the instance defaults merged over the call.
instanceSendConfigDefaultsLast(classDefaults, instanceDefaults, config) ==
  mergeConfig(classDefaults, mergeConfig(config, instanceDefaults))

\* What an instance send validates: send(config) passes mergeConfig(this.defaults,
\* config) to the static send, which merges the class defaults with it.
instanceSendConfig(classDefaults, instanceDefaults, config) ==
  mergeConfig(classDefaults, mergeConfig(instanceDefaults, config))

\* client.send(C) on a client with defaults B of a class with defaults A.
CallInstanceSendConfig ==
  /\ args.op = "send" /\ result = Pending
  /\ result' = Done(instanceSendConfig(args.a, args.b, args.c))
  /\ UNCHANGED <<args, notMerge>>

MergeNext ==
  CallMergeLadder \/ CallMergeConfig \/ CallMergeInterceptors \/ CallInstanceSendConfig

MergeSpec == MergeInit /\ [][MergeNext]_vars

(***************************************************************************)
(* C3: merge precedence.  For class defaults A, instance defaults B and a  *)
(* call override C, every non-header key k of mergeConfig(mergeConfig(A,   *)
(* B), C) has C's value when C sets k, else B's when B sets k, else A's    *)
(* when A sets k, and is absent when none sets it.                         *)
(***************************************************************************)
MergePrecedence ==
  (args.op = "ladder" /\ result.t = "done") =>
    \A k \in RestKeys :
      /\ args.c[k] # Absent => result.v[k] = args.c[k]
      /\ (args.c[k] = Absent /\ args.b[k] # Absent) => result.v[k] = args.b[k]
      /\ (args.c[k] = Absent /\ args.b[k] = Absent) => result.v[k] = args.a[k]

\* All three layers set `delay`, only A and B set `path`: C's delay, B's path.
MergePrecedenceWitness ==
  /\ args.op = "ladder" /\ result.t = "done"
  /\ args.a["delay"] = Num(0) /\ args.b["delay"] = Num(5) /\ args.c["delay"] = Num(0)
  /\ args.a["path"] = Str(<<"/">>) /\ args.b["path"] = Str(<<"/", "i">>)
  /\ args.c["path"] = Absent
  /\ result.v["delay"] = Num(0) /\ result.v["path"] = Str(<<"/", "i">>)

(***************************************************************************)
(* C4: headers are merged header by header.  The header set of             *)
(* mergeConfig(a, b) holds every name of a and of b (compared without      *)
(* case), with b's value for a name b has and a's value for a name only a  *)
(* has, for plain maps, native collections and absent headers alike.       *)
(***************************************************************************)
\* The names a headers input has, lower-cased, and the values it has for one.
NamesOf(h) ==
  IF h.t = "Headers" THEN DOMAIN h.map
  ELSE IF h.t = "object" THEN {Lower(h.entries[i][1]) : i \in 1..Len(h.entries)}
  ELSE {}

ValuesOf(h, n) ==
  IF h.t = "Headers" THEN {h.map[n]}
  ELSE {h.entries[i][2] : i \in {j \in 1..Len(h.entries) : Lower(h.entries[j][1]) = n}}

HeaderMergeAdditive ==
  (args.op = "headers" /\ result.t = "done") =>
    LET ha == Get(args.a, "headers")
        hb == Get(args.b, "headers")
        r == result.v["headers"]
    IN  /\ r.t = "Headers"
        /\ DOMAIN r.map = NamesOf(ha) \cup NamesOf(hb)
        /\ \A n \in DOMAIN r.map :
             IF n \in NamesOf(hb) THEN r.map[n] \in ValuesOf(hb, n)
             ELSE r.map[n] \in ValuesOf(ha, n)

\* A plain map {A: "1", b: "1"} merged with a native collection {a: "2"}.
HeaderMergeAdditiveWitness ==
  /\ args.op = "headers" /\ result.t = "done"
  /\ args.a["headers"] = Plain(<<(<<"A", "1">>), (<<"b", "1">>)>>)
  /\ args.b["headers"] = Hdrs([n \in {"a"} |-> "2"])
  /\ result.v["headers"] = Hdrs([n \in {"a", "b"} |-> IF n = "a" THEN "2" ELSE "1"])

(***************************************************************************)
(* C5: each list of mergeInterceptors(a, b) is a's list followed by b's    *)
(* with every later occurrence of a function already seen removed: no      *)
(* function twice, every function of either input, first appearances in    *)
(* order; a missing list counts as empty.                                  *)
(***************************************************************************)
ItemsOf(list) == IF list.t = "array" THEN list.items ELSE <<>>

FirstIndex(s, x) == CHOOSE i \in 1..Len(s) : s[i] = x /\ \A j \in 1..(i - 1) : s[j] # x

\* r is s without the later occurrences of its items.
IsFirstOccurrences(r, s) ==
  /\ \A i, j \in 1..Len(r) : i # j => r[i] # r[j]
  /\ {r[i] : i \in 1..Len(r)} = {s[i] : i \in 1..Len(s)}
  /\ \A i, j \in 1..Len(r) : i < j => FirstIndex(s, r[i]) < FirstIndex(s, r[j])

InterceptorMergeDedup ==
  (args.op = "interceptors" /\ result.t = "done") =>
    /\ result.v.request.t = "array" /\ result.v.response.t = "array"
    /\ IsFirstOccurrences(result.v.request.items,
                          ItemsOf(args.a.request) \o ItemsOf(args.b.request))
    /\ IsFirstOccurrences(result.v.response.items,
                          ItemsOf(args.a.response) \o ItemsOf(args.b.response))

\* [f, g] merged with [g, h] gives [f, g, h]; the response list of a is missing.
InterceptorMergeDedupWitness ==
  /\ args.op = "interceptors" /\ result.t = "done"
  /\ args.a.request = Arr(<<"f", "g">>) /\ args.b.request = Arr(<<"g", "h">>)
  /\ args.a.response = Undefined /\ args.b.response = Arr(<<"h">>)
  /\ result.v.request = Arr(<<"f", "g", "h">>)
  /\ result.v.response = Arr(<<"h">>)


(***************************************************************************)
(* The heap.  Configuration objects, Headers collections, interceptor      *)
(* arrays, bundles and JSON payload objects are held by reference, so that *)
(* what two owners share is a result of the code's copying, not assumed.   *)
(***************************************************************************)
\* The heap is the sequence of its objects; an address is an index into it.
Ref(a) == [t |-> "ref", a |-> a]
\* A configuration object: its own keys; `headers` and `json` may hold references.
ConfigObj(f) == [t |-> "config", f |-> f]
\* An interceptor bundle { request, response }.
BundleObj(request, response) == [t |-> "bundle", request |-> request, response |-> response]
\* A JSON payload object { x }.
JsonObj(x) == [t |-> "json", x |-> x]
\* In an argument: an object literal { x } the caller writes, not yet allocated.
JsonLiteral(x) == [t |-> "literal", x |-> x]

\* What a value denotes: the object a reference points to, else the value itself.
Resolve(h, v) == IF v.t = "ref" THEN h[v.a] ELSE v

\* A merged configuration stored: its headers are a new Headers object and the
\* result a new configuration object.
StoreConfig(h, merged) ==
  [heap |-> h \o <<merged["headers"],
                   ConfigObj([k \in ConfigKeys |->
                                IF k = "headers" THEN Ref(Len(h) + 1) ELSE merged[k]])>>,
   ref |-> Ref(Len(h) + 2)]

\* mergeConfig on the heap: a and b are the own keys of two configuration
\* objects.  Every key but `headers` is copied as it is (a reference stays a
\* reference to the same object).
HeapMergeConfig(h, a, b) ==
  StoreConfig(h, mergeConfig([a EXCEPT !["headers"] = Resolve(h, a["headers"])],
                             [b EXCEPT !["headers"] = Resolve(h, b["headers"])]))

\* A merged bundle stored: two new arrays in a new bundle.
StoreBundle(h, merged) ==
  [heap |-> h \o <<merged.request, merged.response,
                   BundleObj(Ref(Len(h) + 1), Ref(Len(h) + 2))>>,
   ref |-> Ref(Len(h) + 3)]

\* mergeInterceptors on the heap.
HeapMergeInterceptors(h, a, b) ==
  StoreBundle(h, mergeInterceptors(
                   [request |-> Resolve(h, a.request), response |-> Resolve(h, a.response)],
                   [request |-> Resolve(h, b.request), response |-> Resolve(h, b.response)]))

\* The caller's argument objects: an object literal in `json` is allocated.
Materialize(h, config) ==
  IF config["json"].t = "literal"
    THEN [heap |-> Append(h, JsonObj(config["json"].x)),
          config |-> [config EXCEPT !["json"] = Ref(Len(h) + 1)]]
    ELSE [heap |-> h, config |-> config]

\* The own keys of the configuration object at r, the lists of the bundle at r.
ConfigAt(h, r) == h[r.a].f
BundleAt(h, r) == [request |-> h[r.a].request, response |-> h[r.a].response]

\* What an observer reads through a configuration: every key, the headers'
\* entries and the payload's content.
DeepConfig(h, r) ==
  [k \in ConfigKeys |-> Resolve(h, ConfigAt(h, r)[k])]

\* What an observer reads through a bundle: the two lists.
DeepBundle(h, r) ==
  [request |-> Resolve(h, h[r.a].request), response |-> Resolve(h, h[r.a].response)]


(***************************************************************************)
(* Classes and clients.  A class holds `defaults` and `interceptors` as    *)
(* static properties; a subclass that never assigned one reads its         *)
(* parent's (the very same object).                                        *)
(***************************************************************************)
MaxInstances == 2   \* clients constructed or forked
MaxDefines == 1     \* defineDefaults / defineInterceptors calls after start-up
MaxMutations == 1   \* direct mutations of an owner's defaults / interceptors

Classes == {"HttpClient", "WebScraper"}

\* this.defaults / this.interceptors read on class c (the prototype chain).
StaticGet(st, c, prop) ==
  IF st[c][prop] # Absent THEN st[c][prop] ELSE st["HttpClient"][prop]

NoInstance == [t |-> "none"]
Client(c, defaults, interceptors) ==
  [t |-> "client", cls |-> c, defaults |-> defaults, interceptors |-> interceptors]

Live(inst) == {i \in DOMAIN inst : inst[i] # NoInstance}

\* The addresses reached from a configuration object and from a bundle, in order.
RefSeq(v) == IF v.t = "ref" THEN <<v.a>> ELSE <<>>
ConfigAddrs(h, r) ==
  IF r = Absent THEN <<>>
  ELSE <<r.a>> \o RefSeq(h[r.a].f["headers"]) \o RefSeq(h[r.a].f["json"])
BundleAddrs(h, r) ==
  IF r = Absent THEN <<>>
  ELSE <<r.a>> \o RefSeq(h[r.a].request) \o RefSeq(h[r.a].response)

RECURSIVE InstanceAddrs(_, _, _)
InstanceAddrs(h, inst, i) ==
  IF i > Len(inst) THEN <<>>
  ELSE (IF inst[i] = NoInstance THEN <<>>
        ELSE ConfigAddrs(h, inst[i].defaults) \o BundleAddrs(h, inst[i].interceptors))
       \o InstanceAddrs(h, inst, i + 1)

\* The classes a specification may have defined, in a fixed order.
ClassOrder == <<"HttpClient", "WebScraper", "OtherScraper">>

RECURSIVE ClassAddrs(_, _, _)
ClassAddrs(h, st, i) ==
  IF i > Len(ClassOrder) THEN <<>>
  ELSE (IF ClassOrder[i] \in DOMAIN st
          THEN ConfigAddrs(h, st[ClassOrder[i]].defaults)
               \o BundleAddrs(h, st[ClassOrder[i]].interceptors)
          ELSE <<>>)
       \o ClassAddrs(h, st, i + 1)

\* Every address an owner reaches, each once, in a fixed order of the owners.
Reached(h, st, inst) ==
  pushUnique(<<>>, ClassAddrs(h, st, 1) \o InstanceAddrs(h, inst, 1))

\* The objects listed in `order`, renumbered by their place in it.
Renumber(order, h, st, inst) ==
  LET new(a) == CHOOSE n \in 1..Len(order) : order[n] = a
      move(v) == IF v.t = "ref" THEN Ref(new(v.a)) ELSE v
      cell(c) == IF c.t = "config" THEN ConfigObj([k \in ConfigKeys |-> move(c.f[k])])
                 ELSE IF c.t = "bundle" THEN BundleObj(move(c.request), move(c.response))
                 ELSE c
  IN  [heap |-> [a \in 1..Len(order) |-> cell(h[order[a]])],
       statics |-> [c \in DOMAIN st |-> [defaults |-> move(st[c].defaults),
                                       interceptors |-> move(st[c].interceptors)]],
       instances |-> [i \in DOMAIN inst |->
                        IF inst[i] = NoInstance THEN NoInstance
                        ELSE Client(inst[i].cls, move(inst[i].defaults),
                                    move(inst[i].interceptors))]]

\* Garbage collection: the objects no owner reaches are dropped and the others
\* are renumbered in the order Reached lists them (addresses are not observable).
Settle(h, st, inst) == Renumber(Reached(h, st, inst), h, st, inst)

\* A mutant of AssignDefaults: the property is assigned where it was found, on
\* the class that holds it.
AssignDefaultsWhereFound(st, c, m) ==
  [heap |-> m.heap,
   statics |-> IF st[c].defaults # Absent THEN [st EXCEPT ![c].defaults = m.ref]
               ELSE [st EXCEPT !["HttpClient"].defaults = m.ref]]

\* static defineDefaults(config): this.defaults = this.mergeConfig(this.defaults, config)
AssignDefaults(st, c, m) == [heap |-> m.heap, statics |-> [st EXCEPT ![c].defaults = m.ref]]
defineDefaults(h, st, c, config) ==
  AssignDefaults(st, c, HeapMergeConfig(h, ConfigAt(h, StaticGet(st, c, "defaults")), config))

\* static defineInterceptors(interceptors)
AssignInterceptors(st, c, m) ==
  [heap |-> m.heap, statics |-> [st EXCEPT ![c].interceptors = m.ref]]
defineInterceptors(h, st, c, interceptors) ==
  AssignInterceptors(st, c,
    HeapMergeInterceptors(h, BundleAt(h, StaticGet(st, c, "interceptors")), interceptors))

\* constructor(config, interceptors), as `new this(...)` of class c runs it:
\* this.defaults, then this.interceptors, each merged onto the class's statics
\* as they are at this moment.
NewClient(c, d, i) == [heap |-> i.heap, client |-> Client(c, d.ref, i.ref)]
constructInterceptors(d, st, c, interceptors) ==
  NewClient(c, d, HeapMergeInterceptors(d.heap,
                    BundleAt(d.heap, StaticGet(st, c, "interceptors")), interceptors))
constructor(h, st, c, config, interceptors) ==
  constructInterceptors(
    HeapMergeConfig(h, ConfigAt(h, StaticGet(st, c, "defaults")), config),
    st, c, interceptors)

\* this.super.create(mergedConfig, mergedInterceptors)
forkCreate(st, p, mergedConfig, mergedInterceptors) ==
  constructor(mergedInterceptors.heap, st, p.cls,
              ConfigAt(mergedInterceptors.heap, mergedConfig.ref),
              BundleAt(mergedInterceptors.heap, mergedInterceptors.ref))
forkInterceptors(st, p, mergedConfig, interceptors) ==
  forkCreate(st, p, mergedConfig,
             HeapMergeInterceptors(mergedConfig.heap,
                                   BundleAt(mergedConfig.heap, p.interceptors), interceptors))
\* fork(config, interceptors) on client p: merge onto p's own defaults and
\* interceptors, then create a client of p's class from the two.
fork(h, st, p, config, interceptors) ==
  forkInterceptors(st, p, HeapMergeConfig(h, ConfigAt(h, p.defaults), config), interceptors)

\* The state once both classes are defined: HttpClient.defaults = {},
\* HttpClient.interceptors = { request: [], response: [] }, and WebScraper's
\* static block has defined its content-type default.
HtmlContentType == "text/html; charset=utf-8"

BaseHeap == <<ConfigObj(EmptyConfig), Arr(<<>>), Arr(<<>>), BundleObj(Ref(2), Ref(3))>>

BaseStatics ==
  [c \in Classes |->
     IF c = "HttpClient" THEN [defaults |-> Ref(1), interceptors |-> Ref(4)]
     ELSE [defaults |-> Absent, interceptors |-> Absent]]

Loaded ==
  defineDefaults(BaseHeap, BaseStatics, "WebScraper",
                 [EmptyConfig EXCEPT
                    !["headers"] = Plain(<<(<<"content-type", HtmlContentType>>)>>)])

\* The arguments the callers pass.
ConfigArgs ==
  {EmptyConfig,
   [EmptyConfig EXCEPT !["headers"] = Plain(<<(<<"a", "1">>)>>)],
   [EmptyConfig EXCEPT !["headers"] = Plain(<<(<<"b", "2">>)>>), !["delay"] = Num(5),
                       !["json"] = JsonLiteral("1")]}

BundleArgs ==
  {[request |-> Undefined, response |-> Undefined],
   [request |-> Arr(<<"f">>), response |-> Arr(<<"g">>)]}

\* The state of MergeSpec while another specification runs.
MergeIdle == args = <<>> /\ result = Pending

LineageInit ==
  /\ MergeIdle
  /\ SendIdle
  /\ BodyIdle /\ SharingIdle /\ CacheIdle
  /\ LET s == Settle(Loaded.heap, Loaded.statics, [i \in 1..MaxInstances |-> NoInstance])
     IN  heap = s.heap /\ statics = s.statics /\ instances = s.instances
  /\ budget = [defines |-> 0, mutations |-> 0]
  /\ last = [op |-> "load"]

DefineDefaults(c, config) ==
  /\ budget.defines < MaxDefines
  /\ \E arg \in {Materialize(heap, config)} :
     \E r \in {defineDefaults(arg.heap, statics, c, arg.config)} :
     \E s \in {Settle(r.heap, r.statics, instances)} :
       heap' = s.heap /\ statics' = s.statics /\ instances' = s.instances
  /\ budget' = [budget EXCEPT !.defines = @ + 1]
  /\ last' = [op |-> "defineDefaults", cls |-> c]
  /\ UNCHANGED notLineage

DefineInterceptors(c, interceptors) ==
  /\ budget.defines < MaxDefines
  /\ \E r \in {defineInterceptors(heap, statics, c, interceptors)} :
     \E s \in {Settle(r.heap, r.statics, instances)} :
       heap' = s.heap /\ statics' = s.statics /\ instances' = s.instances
  /\ budget' = [budget EXCEPT !.defines = @ + 1]
  /\ last' = [op |-> "defineInterceptors", cls |-> c]
  /\ UNCHANGED notLineage

\* static create(config, interceptors): new this(config, interceptors)
Create(c, config, interceptors) ==
  /\ \E q \in DOMAIN instances :
       /\ instances[q] = NoInstance
       /\ \A j \in 1..(q - 1) : instances[j] # NoInstance
       /\ \E arg \in {Materialize(heap, config)} :
          \E r \in {constructor(arg.heap, statics, c, arg.config, interceptors)} :
          \E s \in {Settle(r.heap, statics, [instances EXCEPT ![q] = r.client])} :
            heap' = s.heap /\ statics' = s.statics /\ instances' = s.instances
       /\ last' = [op |-> "create", q |-> q]
  /\ UNCHANGED <<budget, notLineage>>

\* p.fork(config, interceptors).  The history keeps what the caller passed and
\* what p's defaults and interceptors merged with it are, as read before the call.
Fork(p, config, interceptors) ==
  /\ instances[p] # NoInstance
  /\ \E q \in DOMAIN instances :
       /\ instances[q] = NoInstance
       /\ \A j \in 1..(q - 1) : instances[j] # NoInstance
       /\ \E arg \in {Materialize(heap, config)} :
          \E r \in {fork(arg.heap, statics, instances[p], arg.config, interceptors)} :
          \E mc \in {HeapMergeConfig(arg.heap, ConfigAt(arg.heap, instances[p].defaults),
                                     arg.config)} :
          \E mi \in {HeapMergeInterceptors(arg.heap,
                                           BundleAt(arg.heap, instances[p].interceptors),
                                           interceptors)} :
          \E s \in {Settle(r.heap, statics, [instances EXCEPT ![q] = r.client])} :
              /\ heap' = s.heap /\ statics' = s.statics /\ instances' = s.instances
              /\ last' = [op |-> "fork", p |-> p, q |-> q,
                          config |-> [k \in ConfigKeys |-> Resolve(arg.heap, arg.config[k])],
                          parentBefore |-> DeepConfig(heap, instances[p].defaults),
                          mergedConfig |-> DeepConfig(mc.heap, mc.ref),
                          mergedInterceptors |-> DeepBundle(mi.heap, mi.ref)]
  /\ UNCHANGED <<budget, notLineage>>


(***************************************************************************)
(* Direct mutations by client code of what an owner (a class or a client)  *)
(* exposes: owner.defaults, owner.defaults.headers, owner.defaults.json,   *)
(* owner.interceptors.request / .response.                                 *)
(***************************************************************************)
ClassOwner(c) == [kind |-> "class", cls |-> c, idx |-> 0]
ClientOwner(i) == [kind |-> "client", cls |-> "", idx |-> i]

Owners(inst) == {ClassOwner(c) : c \in Classes} \cup {ClientOwner(i) : i \in Live(inst)}

OwnerDefaults(st, inst, o) ==
  IF o.kind = "class" THEN StaticGet(st, o.cls, "defaults") ELSE inst[o.idx].defaults

OwnerInterceptors(st, inst, o) ==
  IF o.kind = "class" THEN StaticGet(st, o.cls, "interceptors") ELSE inst[o.idx].interceptors

Mutated(o) ==
  /\ budget' = [budget EXCEPT !.mutations = @ + 1]
  /\ last' = [op |-> "mutate", target |-> o]
  /\ UNCHANGED <<statics, instances, notLineage>>

\* owner.defaults.headers.set(name, value) / .delete(name)
MutateHeaders(o, how, name) ==
  /\ budget.mutations < MaxMutations
  /\ LET hr == ConfigAt(heap, OwnerDefaults(statics, instances, o))["headers"]
     IN  /\ hr.t = "ref"
         /\ heap' = [heap EXCEPT ![hr.a] =
                       Hdrs(IF how = "set" THEN HeadersSet(heap[hr.a].map, name, "2")
                            ELSE HeadersDelete(heap[hr.a].map, name))]
  /\ Mutated(o)

\* owner.defaults.delay = 0 / delete owner.defaults.delay
MutateDefaults(o, how) ==
  /\ budget.mutations < MaxMutations
  /\ LET dr == OwnerDefaults(statics, instances, o)
     IN  heap' = [heap EXCEPT ![dr.a] =
                    ConfigObj([heap[dr.a].f EXCEPT
                                 !["delay"] = IF how = "set" THEN Num(0) ELSE Absent])]
  /\ Mutated(o)

\* owner.defaults.json.x = "2"
MutateJson(o) ==
  /\ budget.mutations < MaxMutations
  /\ LET jr == ConfigAt(heap, OwnerDefaults(statics, instances, o))["json"]
     IN  /\ jr.t = "ref"
         /\ heap' = [heap EXCEPT ![jr.a] = JsonObj("2")]
  /\ Mutated(o)

\* owner.interceptors.request.push(fn) / .response.push(fn)
MutateInterceptors(o, side) ==
  /\ budget.mutations < MaxMutations
  /\ LET lr == BundleAt(heap, OwnerInterceptors(statics, instances, o))[side]
     IN  heap' = [heap EXCEPT ![lr.a] = Arr(Append(heap[lr.a].items, "k"))]
  /\ Mutated(o)

LineageNext ==
  \/ \E c \in Classes, config \in ConfigArgs \ {EmptyConfig} : DefineDefaults(c, config)
  \/ \E c \in Classes : DefineInterceptors(c, [request |-> Arr(<<"h">>), response |-> Undefined])
  \/ \E c \in Classes, config \in ConfigArgs, interceptors \in BundleArgs :
       Create(c, config, interceptors)
  \/ \E p \in DOMAIN instances, config \in ConfigArgs, interceptors \in BundleArgs :
       Fork(p, config, interceptors)
  \/ \E o \in Owners(instances) :
       \E m \in {<<"set", "a">>, <<"delete", "a">>, <<"delete", "content-type">>} :
         MutateHeaders(o, m[1], m[2])
  \/ \E o \in Owners(instances), how \in {"set", "delete"} : MutateDefaults(o, how)
  \/ \E o \in Owners(instances) : MutateJson(o)
  \/ \E o \in Owners(instances), side \in {"request", "response"} : MutateInterceptors(o, side)

LineageSpec == LineageInit /\ [][LineageNext]_vars

\* What an observer reads through an owner.
View(h, st, inst, o) ==
  [defaults |-> DeepConfig(h, OwnerDefaults(st, inst, o)),
   interceptors |-> DeepBundle(h, OwnerInterceptors(st, inst, o))]

(***************************************************************************)
(* C6: P.fork(config, interceptors) returns a new client Q of P's class    *)
(* whose defaults equal mergeConfig(P.defaults, config) and whose          *)
(* interceptors equal mergeInterceptors(P.interceptors, interceptors),     *)
(* whatever class-level definitions, constructions and forks came before.  *)
(***************************************************************************)
ForkIsMergeOfParent ==
  last.op = "fork" =>
    /\ instances[last.q].cls = instances[last.p].cls
    /\ DeepConfig(heap, instances[last.q].defaults) = last.mergedConfig
    /\ DeepBundle(heap, instances[last.q].interceptors) = last.mergedInterceptors

(***************************************************************************)
(* C7: for a client P whose default headers are {a: "1"},                  *)
(* Q = P.fork({headers: {b: "2"}}) has the default headers {a: "1",        *)
(* b: "2"}, and the fork leaves P's default headers as they were.          *)
(***************************************************************************)
ForkHeadersExample ==
  (/\ last.op = "fork"
   /\ last.parentBefore["headers"] = Hdrs([n \in {"a"} |-> "1"])
   /\ last.config["headers"] = Plain(<<(<<"b", "2">>)>>)) =>
    /\ DeepConfig(heap, instances[last.q].defaults)["headers"]
         = Hdrs([n \in {"a", "b"} |-> IF n = "a" THEN "1" ELSE "2"])
    /\ DeepConfig(heap, instances[last.p].defaults)["headers"] = last.parentBefore["headers"]

\* The rest of C7: a later change of one client's default headers leaves every
\* other client's default headers as they were.
ForkHeadersFrame ==
  [][(last'.op = "mutate" /\ last'.target.kind = "client") =>
       \A i \in Live(instances) \ {last'.target.idx} :
         DeepConfig(heap', instances[i].defaults)["headers"]
           = DeepConfig(heap, instances[i].defaults)["headers"]]_vars

(***************************************************************************)
(* C8: a class and a client constructed from it, and a client and its      *)
(* fork, share no mutable structure: no mutation made through one owner's  *)
(* defaults or interceptors (a field, the headers, an interceptor list, a  *)
(* nested json object) is observable through another client or, when made  *)
(* through a client, through a class.                                      *)
(***************************************************************************)
SharesNothing ==
  [][last'.op = "mutate" =>
       \A o \in Owners(instances) \ {last'.target} :
         (o.kind = "client" \/ last'.target.kind = "client") =>
           View(heap', statics, instances, o) = View(heap, statics, instances, o)]_vars


(***************************************************************************)
(* Validation.  ConfigSchema and InterceptorsSchema, key by key: a parser  *)
(* gives [ok, v], v being the parsed (defaulted, transformed) value.       *)
(***************************************************************************)
Null == [t |-> "null"]
Accept(v) == [ok |-> TRUE, v |-> v]
Reject == [ok |-> FALSE, v |-> Undefined]

Missing(v) == v = Absent \/ v = Undefined

\* z.number().min(0).default(0)
parseDelay(v) ==
  IF Missing(v) THEN Accept(Num(0))
  ELSE IF v.t = "number" /\ v.v >= 0 THEN Accept(v)
  ELSE Reject

StartsWith(s, c) == Len(s) > 0 /\ s[1] = c
EndsWith(s, c) == Len(s) > 0 /\ s[Len(s)] = c

\* A mutant of parsePath: any string is a path.
parsePathAnyString(v) ==
  IF Missing(v) THEN Accept(Str(<<"/">>))
  ELSE IF v.t = "string" THEN Accept(v)
  ELSE Reject

\* z.string().startsWith("/").default("/")
parsePath(v) ==
  IF Missing(v) THEN Accept(Str(<<"/">>))
  ELSE IF v.t = "string" /\ StartsWith(v.v, "/") THEN Accept(v)
  ELSE Reject

\* z.string().url(): new URL(value) succeeds.  Over the characters the model
\* writes origins with, that is a scheme (letters) followed by ":".
Letters == {"h", "s", "p", "x"}
IsUrl(s) ==
  \E i \in 2..Len(s) : s[i] = ":" /\ \A j \in 1..(i - 1) : s[j] \in Letters

\* cleanUrl: one trailing "/" is cut.
cleanUrl(s) == IF EndsWith(s, "/") THEN SubSeq(s, 1, Len(s) - 1) ELSE s

\* A mutant of parseOrigin: the schema without .optional().
parseOriginRequired(v) ==
  IF v.t = "string" /\ IsUrl(v.v) THEN Accept(Str(cleanUrl(v.v))) ELSE Reject

\* z.string().url().transform(cleanUrl).optional()
parseOrigin(v) ==
  IF Missing(v) THEN Accept(Undefined)
  ELSE IF v.t = "string" /\ IsUrl(v.v) THEN Accept(Str(cleanUrl(v.v)))
  ELSE Reject

\* z.enum([...]).default("GET"): each method in lower case and in upper case.
MethodEnum ==
  {"get", "GET", "head", "HEAD", "options", "OPTIONS", "trace", "TRACE", "connect",
   "CONNECT", "delete", "DELETE", "post", "POST", "put", "PUT", "patch", "PATCH"}
Method(m) == [t |-> "method", v |-> m]
parseMethod(v) ==
  IF Missing(v) THEN Accept(Method("GET"))
  ELSE IF v.t = "method" /\ v.v \in MethodEnum THEN Accept(v)
  ELSE Reject

\* JSON.stringify of a payload object { x: "..." }; of undefined it is undefined.
JsonStringify(v) ==
  IF v.t = "json" THEN Str(<<"{", "\"", "x", "\"", ":", "\"", v.x, "\"", "}">>)
  ELSE Undefined

\* JSON.parse over the texts the model writes: {}, a digit, {"x":"..."}.
Digits == <<"0", "1", "2", "3", "4", "5", "6", "7", "8", "9">>
JsonParse(s) ==
  IF s = <<"{", "}">> THEN Accept(Plain(<<>>))
  ELSE IF Len(s) = 1 /\ \E d \in 1..Len(Digits) : Digits[d] = s[1]
    THEN Accept(Num((CHOOSE d \in 1..Len(Digits) : Digits[d] = s[1]) - 1))
  ELSE IF /\ Len(s) = Len(JsonStringify(JsonObj("1")).v)
          /\ s = JsonStringify(JsonObj(s[Len(s) - 2])).v
          /\ s[Len(s) - 2] \notin {"\"", "\\"}
    THEN Accept(JsonObj(s[Len(s) - 2]))
  ELSE Reject

\* z.object({}).passthrough().optional().transform(JSON.stringify)
\*   .or(z.string().refine(JSON.parse succeeds))
parseJson(v) ==
  IF Missing(v) THEN Accept(Undefined)
  ELSE IF v.t = "json" THEN Accept(JsonStringify(v))
  ELSE IF v.t = "string" /\ JsonParse(v.v).ok THEN Accept(v)
  ELSE Reject

\* Blob | ArrayBuffer | FormData | URLSearchParams | string, nullable, default null
parseBody(v) ==
  IF Missing(v) THEN Accept(Null)
  ELSE IF v.t \in {"string", "null"} THEN Accept(v)
  ELSE Reject

\* new Headers(record): each entry is appended, a second value for a name is
\* joined to the first with ", ".
RECURSIVE newHeaders(_, _)
newHeaders(map, entries) ==
  IF entries = <<>> THEN map
  ELSE newHeaders(
         HeadersSet(map, Head(entries)[1],
                    IF Lower(Head(entries)[1]) \in DOMAIN map
                      THEN map[Lower(Head(entries)[1])] \o ", " \o Head(entries)[2]
                      ELSE Head(entries)[2]),
         Tail(entries))

\* z.instanceof(Headers).or(z.record(z.string()).transform(new Headers))
\*   .default(() => new Headers())
parseHeaders(v) ==
  IF Missing(v) THEN Accept(Hdrs(EmptyMap))
  ELSE IF v.t = "Headers" THEN Accept(v)
  ELSE IF v.t = "object" THEN Accept(Hdrs(newHeaders(EmptyMap, v.entries)))
  ELSE Reject

parseKey(k, v) ==
  CASE k = "delay" -> parseDelay(v)
    [] k = "path" -> parsePath(v)
    [] k = "origin" -> parseOrigin(v)
    [] k = "method" -> parseMethod(v)
    [] k = "json" -> parseJson(v)
    [] k = "body" -> parseBody(v)
    [] k = "headers" -> parseHeaders(v)

\* ConfigSchema.parse(config): every key parsed, a ZodError if one is rejected.
ConfigSchemaParse(config) ==
  [ok |-> \A k \in ConfigKeys : parseKey(k, config[k]).ok,
   v |-> [k \in ConfigKeys |-> parseKey(k, config[k]).v]]

\* The values found in interceptor lists, by identity, with what typeof,
\* .name and .length give for each.
Callables ==
  [f      |-> [typeof |-> "function", name |-> Str(<<"f">>), length |-> 1],
   g      |-> [typeof |-> "function", name |-> Str(<<"g">>), length |-> 1],
   h      |-> [typeof |-> "function", name |-> Str(<<"h">>), length |-> 1],
   arrow1 |-> [typeof |-> "function", name |-> Str(<<>>), length |-> 1],
   arrow0 |-> [typeof |-> "function", name |-> Str(<<>>), length |-> 0],
   noop   |-> [typeof |-> "function", name |-> Str(<<"n", "o", "o", "p">>), length |-> 0],
   text   |-> [typeof |-> "string", name |-> Undefined, length |-> 4]]

\* typeof value === "function" && value.name !== undefined && value.length > 0
isValidateInterceptor(value) ==
  /\ Callables[value].typeof = "function"
  /\ Callables[value].name # Undefined
  /\ Callables[value].length > 0

\* z.array(z.custom(isValidateInterceptor)).default([])
parseList(v) ==
  IF Missing(v) THEN Accept(Arr(<<>>))
  ELSE IF v.t = "array" /\ \A i \in 1..Len(v.items) : isValidateInterceptor(v.items[i])
    THEN Accept(v)
  ELSE Reject

\* InterceptorsSchema.parse(bundle)
InterceptorsSchemaParse(bundle) ==
  [ok |-> parseList(bundle.request).ok /\ parseList(bundle.response).ok,
   v |-> [request |-> parseList(bundle.request).v,
          response |-> parseList(bundle.response).v]]


(***************************************************************************)
(* The request and the response of one send.                               *)
(***************************************************************************)
None == [t |-> "none"]
Thrown(name, cause) == [name |-> name, cause |-> cause]

JsonContentType == "application/json;charset=UTF-8"
\* A mutant of IncludesJson: only the content type the client itself sets.
IncludesJsonOwnTypeOnly(contentType) == contentType = JsonContentType

\* contentType.includes("json"), over the content types the model writes.
IncludesJson(contentType) == contentType \in {JsonContentType, "application/json"}

\* headers.get("content-type") || ""
contentTypeOf(map) == IF "content-type" \in DOMAIN map THEN map["content-type"] ELSE ""

\* Request normalises the method's case.
UpperMethod(m) ==
  CASE m \in {"get", "GET"} -> "GET"
    [] m \in {"head", "HEAD"} -> "HEAD"
    [] m \in {"post", "POST"} -> "POST"
    [] m \in {"put", "PUT"} -> "PUT"
    [] m \in {"delete", "DELETE"} -> "DELETE"
    [] m \in {"options", "OPTIONS"} -> "OPTIONS"
    [] m \in {"patch", "PATCH"} -> "PATCH"
    [] m \in {"trace", "TRACE"} -> "TRACE"
    [] m \in {"connect", "CONNECT"} -> "CONNECT"

\* A mutant of requestBody: body || json.
requestBodyPrefersBody(json, body) == IF Truthy(body) THEN body ELSE json

\* body: json || body
requestBody(json, body) == IF Truthy(json) THEN json ELSE body

TextContentType == "text/plain;charset=UTF-8"

\* The Request constructor copies the init's headers and, for a string body
\* without a content-type header, adds the text content type.
requestHeaders(map, body) ==
  IF body.t = "string" /\ "content-type" \notin DOMAIN map
    THEN HeadersSet(map, "content-type", TextContentType)
    ELSE map

\* new HttpRequest(origin + path, init): body is json || body; the Request
\* constructor throws a TypeError for a url that does not parse (an undefined
\* origin gives "undefined/..."), for a forbidden method and for a GET or HEAD
\* request with a body; with json the content-type is set unless it is JSON.
NewHttpRequest(config) ==
  LET body == requestBody(config["json"], config["body"])
      method == UpperMethod(config["method"].v)
      headers == requestHeaders(config["headers"].map, body)
  IN  IF \/ config["origin"] = Undefined
         \/ method \in {"TRACE", "CONNECT"}
         \/ (method \in {"GET", "HEAD"} /\ body # Null)
        THEN [ok |-> FALSE, v |-> None]
        ELSE [ok |-> TRUE,
              v |-> [t |-> "request",
                     url |-> config["origin"].v \o config["path"].v,
                     method |-> method,
                     body |-> body,
                     headers |-> IF Truthy(config["json"])
                                    /\ ~IncludesJson(contentTypeOf(headers))
                                   THEN HeadersSet(headers, "content-type", JsonContentType)
                                   ELSE headers,
                     interceptors |-> <<>>]]

\* addInterceptors(...fns): each pushed unless the list includes it.
addInterceptors(obj, fns) ==
  [obj EXCEPT !.interceptors = pushUnique(obj.interceptors, fns)]

\* What the transport (fetch) resolves with.
NativeResponses ==
  {[status |-> 200, contentType |-> "application/json", text |-> <<"{", "}">>],
   [status |-> 200, contentType |-> "application/json", text |-> <<"{">>],
   [status |-> 200, contentType |-> "application/json",
    text |-> <<"{", "\"", "x", "\"", ":", "\"", "5", "\"", "}">>],
   [status |-> 200, contentType |-> HtmlContentType, text |-> <<"h">>],
   [status |-> 204, contentType |-> "", text |-> <<>>],
   [status |-> 304, contentType |-> "", text |-> <<>>],
   [status |-> 404, contentType |-> HtmlContentType, text |-> <<"h">>],
   [status |-> 500, contentType |-> "application/json", text |-> <<"{", "}">>]}

\* A mutant of ok: every status below 400 counts as a success.
okBelow400(status) == status >= 200 /\ status < 400

\* Response.ok: the status is in the range 200 to 299.
ok(status) == status >= 200 /\ status <= 299

\* new HttpResponse(native, request): status, headers and body of the native
\* response; content = "", data = null, no interceptors.
NewHttpResponse(native) ==
  [t |-> "response", status |-> native.status, contentType |-> native.contentType,
   body |-> native.text, bodyUsed |-> FALSE, content |-> Str(<<>>), data |-> Null,
   interceptors |-> <<>>]


(***************************************************************************)
(* Spec: the send pipeline.  `site` is the class a send is made on and one *)
(* client constructed from it; `call` is one send.  An action is the code  *)
(* that runs between two suspension points (await) of that send.           *)
(***************************************************************************)
EmptyBundle == [request |-> Undefined, response |-> Undefined]
BaseBundle == [request |-> Arr(<<>>), response |-> Arr(<<>>)]

Origin == Str(<<"s", ":", "h">>)
OriginSlash == Str(<<"s", ":", "h", "/">>)

\* The classes: HttpClient as it is defined, and a subclass whose static block
\* called defineDefaults and defineInterceptors.
SiteClasses ==
  {[defaults |-> EmptyConfig, interceptors |-> BaseBundle],
   [defaults |-> mergeConfig(EmptyConfig,
                   [EmptyConfig EXCEPT !["origin"] = OriginSlash, !["delay"] = Num(5),
                      !["headers"] = Plain(<<(<<"content-type", HtmlContentType>>)>>)]),
    interceptors |-> mergeInterceptors(BaseBundle,
                       [request |-> Arr(<<"f">>), response |-> Arr(<<"g">>)])],
   [defaults |-> mergeConfig(EmptyConfig,
                   [EmptyConfig EXCEPT !["origin"] = Origin, !["method"] = Method("PATCH")]),
    interceptors |-> BaseBundle]}

\* The arguments the clients are constructed with.
CtorConfigs ==
  {EmptyConfig,
   [EmptyConfig EXCEPT !["origin"] = Origin, !["path"] = Str(<<"/", "p">>)],
   [EmptyConfig EXCEPT !["method"] = Method("DELETE")]}
CtorBundles == {EmptyBundle, [request |-> Arr(<<"g">>), response |-> Undefined]}

\* A class and a client constructed from it (the constructor's two merges).
Sites ==
  {[defaults |-> cls.defaults, interceptors |-> cls.interceptors,
    client |-> [defaults |-> mergeConfig(cls.defaults, config),
                interceptors |-> mergeInterceptors(cls.interceptors, interceptors)]] :
     cls \in SiteClasses, config \in CtorConfigs, interceptors \in CtorBundles}

\* The arguments of send.
SendConfigs ==
  {EmptyConfig,
   [EmptyConfig EXCEPT !["origin"] = Origin],
   [EmptyConfig EXCEPT !["origin"] = OriginSlash, !["path"] = Str(<<"/", "p">>),
                       !["delay"] = Num(3), !["headers"] = Plain(<<(<<"a", "1">>)>>)],
   [EmptyConfig EXCEPT !["origin"] = Origin, !["path"] = Str(<<"p">>)],
   [EmptyConfig EXCEPT !["origin"] = Origin, !["delay"] = Num(-1)],
   [EmptyConfig EXCEPT !["origin"] = Origin, !["method"] = Method("POST"),
                       !["json"] = Str(<<"{">>)],
   [EmptyConfig EXCEPT !["origin"] = Origin, !["method"] = Method("post"),
                       !["json"] = JsonObj("1"), !["body"] = Str(<<"b">>)],
   [EmptyConfig EXCEPT !["origin"] = Origin, !["json"] = Str(<<"1">>)],
   [EmptyConfig EXCEPT !["origin"] = Origin, !["method"] = Method("PUT"),
                       !["json"] = Str(<<"{", "}">>),
                       !["headers"] = Plain(<<(<<"Content-Type", "application/json">>)>>)],
   [EmptyConfig EXCEPT !["origin"] = Origin, !["method"] = Method("POST"),
                       !["body"] = Str(<<"b">>)],
   [EmptyConfig EXCEPT !["origin"] = Str(<<"h">>)],
   [EmptyConfig EXCEPT !["origin"] = Str(<<"s", ":", "h", "/", "/">>)],
   [EmptyConfig EXCEPT !["origin"] = Origin, !["method"] = Method("FETCH")],
   [EmptyConfig EXCEPT !["origin"] = Origin, !["method"] = Method("Get")]}

SendBundles ==
  {EmptyBundle,
   [request |-> Arr(<<"g", "h">>), response |-> Arr(<<"h", "f">>)],
   [request |-> Arr(<<"arrow1">>), response |-> Undefined],
   [request |-> Undefined, response |-> Arr(<<"arrow0">>)],
   [request |-> Arr(<<"f", "noop">>), response |-> Arr(<<"g">>)],
   [request |-> Arr(<<"h">>), response |-> Arr(<<"text">>)]}

\* A step of the pipeline, as the history of a call records it.
Ev(e, fn) == [e |-> e, fn |-> fn]

IdleCall ==
  [pc |-> "idle", kind |-> "", verb |-> "", config |-> EmptyConfig,
   interceptors |-> EmptyBundle,
   merged |-> EmptyConfig, bundle |-> EmptyBundle, parsed |-> EmptyConfig, delay |-> 0,
   request |-> None,
   responseInterceptors |-> <<>>, native |-> None, response |-> None, idx |-> 0,
   rejection |-> None, error |-> None,
   marks |-> <<>>, seen |-> <<>>,
   held |-> "none", sent |-> "none", got |-> "none",
   log |-> <<>>]

Init ==
  /\ MergeIdle
  /\ LineageIdle
  /\ BodyIdle /\ SharingIdle /\ CacheIdle
  /\ site \in Sites
  /\ call = IdleCall

\* throw: the call is over, rejected with the error.
Fail(c, name, cause) == [c EXCEPT !.pc = "failed", !.error = Thrown(name, cause)]

\* A mutant of interceptorAt: the list is walked from its end.
interceptorAtFromEnd(list, i) == list[Len(list) + 1 - i]

\* for (const interceptor of this.interceptors): the i-th interceptor.
interceptorAt(list, i) == list[i]

\* A mutation an interceptor makes to the object it is given, before its
\* first suspension point ("early") or after its last one ("late").
Mark(phase, fn, when) == [phase |-> phase, fn |-> fn, when |-> when]

\* interceptor(this): the interceptor runs up to its first suspension point.  It
\* reads the object as it is (`seen` keeps the mutations it finds) and mutates it.
Started(c, phase, fn, i) ==
  [c EXCEPT !.pc = phase, !.idx = i,
            !.log = Append(@, Ev(phase \o "Start", fn)),
            !.seen = Append(@, [phase |-> phase, fn |-> fn, saw |-> c.marks,
                                obj |-> c.held]),
            !.marks = Append(@, Mark(phase, fn, "early"))]

\* What the interceptors of the model resolve to: g and h to an object of their
\* own, arrow1 to the object it was given, the others to undefined.
resolved(fn, obj) ==
  IF fn \in {"g", "h"} THEN "other" ELSE IF fn = "arrow1" THEN obj ELSE "undefined"

\* A mutant of awaited: an object the interceptor resolves to replaces the
\* object of the loop.
awaitedAdopted(c, value) ==
  IF value = "undefined" THEN c ELSE [c EXCEPT !.held = value]

\* `await interceptor(this);` is a statement: the value is dropped, the loop
\* goes on with `this`.
awaited(c, value) == c

\* A mutant of Round: the interceptor is called but not awaited, the next one
\* starts in the same step.
RoundNoAwait(c, phase, list, i) ==
  IF i < Len(list)
    THEN Started(Started(c, phase, interceptorAt(list, i), i),
                 phase, interceptorAt(list, i + 1), i + 1)
  ELSE IF i = Len(list) THEN Started(c, phase, interceptorAt(list, i), i)
  ELSE [c EXCEPT !.pc = phase \o "Done", !.idx = 0]

\* The loop of intercept() at its i-th round: the interceptor is called and
\* awaited, or the loop is over.
Round(c, phase, list, i) ==
  IF i <= Len(list)
    THEN Started(c, phase, interceptorAt(list, i), i)
    ELSE [c EXCEPT !.pc = phase \o "Done", !.idx = 0]

\* static send($config, $interceptors) up to its first await: both parses, the
\* request built, its interceptors added, request.intercept() called.
send(c, merged, bundle) ==
  LET config == ConfigSchemaParse(merged)
      interceptors == InterceptorsSchemaParse(bundle)
      request == NewHttpRequest(config.v)
  IN  IF ~config.ok \/ ~interceptors.ok THEN Fail(c, "ZodError", None)
      ELSE IF ~request.ok
        THEN Fail([c EXCEPT !.parsed = config.v, !.log = <<Ev("validated", "")>>],
                  "TypeError", None)
      ELSE Round([c EXCEPT !.parsed = config.v, !.delay = config.v["delay"].v,
                           !.request = addInterceptors(request.v, interceptors.v.request.items),
                           !.responseInterceptors = interceptors.v.response.items,
                           !.held = "request",
                           !.log = <<Ev("validated", ""), Ev("built", "")>>],
                 "request", addInterceptors(request.v, interceptors.v.request.items).interceptors, 1)

\* What static send merges: the class's defaults and interceptors with its arguments.
Called(kind, config, interceptors, merged, bundle) ==
  [IdleCall EXCEPT !.kind = kind, !.config = config, !.interceptors = interceptors,
                   !.merged = merged, !.bundle = bundle]

\* HttpClient.send(config, interceptors), on the class.
StaticSend(config, interceptors) ==
  /\ call.pc = "idle"
  /\ \E merged \in {mergeConfig(site.defaults, config)} :
     \E bundle \in {mergeInterceptors(site.interceptors, interceptors)} :
       call' = send(Called("static", config, interceptors, merged, bundle), merged, bundle)
  /\ UNCHANGED <<site, notSend>>

\* client.send(config, interceptors): the client's defaults and interceptors
\* merged with the arguments are the arguments of the class's send.
InstanceSend(config, interceptors) ==
  /\ call.pc = "idle"
  /\ \E merged \in {mergeConfig(site.defaults, mergeConfig(site.client.defaults, config))} :
     \E bundle \in {mergeInterceptors(site.interceptors,
                      mergeInterceptors(site.client.interceptors, interceptors))} :
       call' = send(Called("instance", config, interceptors, merged, bundle), merged, bundle)
  /\ UNCHANGED <<site, notSend>>


\* A mutant of withMethod: { method, ...config }, a method of the configuration wins.
withMethodUnlessSet(config, method) ==
  IF config["method"] # Absent THEN config ELSE [config EXCEPT !["method"] = Method(method)]

\* { ...config, method: "GET" } / { ...config, method: "POST" }
withMethod(config, method) == [config EXCEPT !["method"] = Method(method)]

\* The arguments of get and post.
VerbConfigs ==
  {EmptyConfig,
   [EmptyConfig EXCEPT !["origin"] = Origin, !["delay"] = Num(3)],
   [EmptyConfig EXCEPT !["method"] = Method("POST")],
   [EmptyConfig EXCEPT !["origin"] = Origin, !["method"] = Method("put"),
                       !["body"] = Str(<<"b">>)],
   [EmptyConfig EXCEPT !["origin"] = OriginSlash, !["method"] = Method("FETCH")]}

\* HttpClient.get(config, interceptors) / HttpClient.post(config, interceptors):
\* this.send({ ...config, method }, interceptors).
StaticVerb(verb, config, interceptors) ==
  /\ call.pc = "idle"
  /\ \E merged \in {mergeConfig(site.defaults, withMethod(config, verb))} :
     \E bundle \in {mergeInterceptors(site.interceptors, interceptors)} :
       call' = send([Called("static", config, interceptors, merged, bundle)
                       EXCEPT !.verb = verb],
                    merged, bundle)
  /\ UNCHANGED <<site, notSend>>

\* client.get(config, interceptors) / client.post(config, interceptors): the
\* client's merges are the arguments of the class's get / post.
InstanceVerb(verb, config, interceptors) ==
  /\ call.pc = "idle"
  /\ \E merged \in {mergeConfig(site.defaults,
                       withMethod(mergeConfig(site.client.defaults, config), verb))} :
     \E bundle \in {mergeInterceptors(site.interceptors,
                      mergeInterceptors(site.client.interceptors, interceptors))} :
       call' = send([Called("instance", config, interceptors, merged, bundle)
                       EXCEPT !.verb = verb],
                    merged, bundle)
  /\ UNCHANGED <<site, notSend>>

\* What an awaited interceptor does: it resolves, or it rejects (or throws).
Outcomes == {"resolves", "rejects"}

\* The request interceptor awaited settles: the next one is called, or
\* request.intercept() is over; a rejection ends the send.
RequestInterceptorSettles(outcome) ==
  /\ call.pc = "request"
  /\ \E c \in {[call EXCEPT
                  !.log = Append(@, Ev("requestEnd",
                             interceptorAt(call.request.interceptors, call.idx))),
                  !.marks = Append(@, Mark("request",
                             interceptorAt(call.request.interceptors, call.idx), "late"))]} :
       call' = IF outcome = "rejects" THEN Fail(c, "InterceptorError", None)
               ELSE Round(awaited(c, resolved(interceptorAt(call.request.interceptors,
                                                            call.idx), call.held)),
                          "request", call.request.interceptors, call.idx + 1)
  /\ UNCHANGED <<site, notSend>>

\* send resumes after `await request.intercept()`: fetch(request) is called.
RequestIntercepted ==
  /\ call.pc = "requestDone"
  /\ call' = [call EXCEPT !.pc = "fetching", !.sent = call.held,
                          !.log = Append(@, Ev("transportStart", ""))]
  /\ UNCHANGED <<site, notSend>>

\* resolveBody(): a body not yet used is read (text(), through json() when the
\* content type includes "json").
resolveBody(c) ==
  IF ~c.response.bodyUsed
    THEN [c EXCEPT !.pc = "body", !.log = Append(@, Ev("bodyStart", ""))]
    ELSE Round(c, "response", c.response.interceptors, 1)

\* fetch resolves: the response is wrapped and given its interceptors; a
\* response that is not ok is thrown in an HttpError, else response.intercept()
\* is called, which resolves the body first.
Wrapped(c, response) ==
  IF ~ok(response.status) THEN Fail(c, "HttpError", response)
  ELSE resolveBody(c)

TransportResolves(native) ==
  /\ call.pc = "fetching"
  /\ \E response \in {addInterceptors(NewHttpResponse(native), call.responseInterceptors)} :
       call' = Wrapped([call EXCEPT !.native = native, !.response = response,
                                    !.held = "response",
                                    !.log = @ \o <<Ev("transportEnd", ""), Ev("wrapped", "")>>],
                       response)
  /\ UNCHANGED <<site, notSend>>

\* What fetch rejects with: a TypeError (network failure) or an AbortError.
TransportErrors == {"TypeError", "AbortError"}
Rejected(reason) == [t |-> "rejected", reason |-> reason]

\* A mutant of awaitRejected: the rejection is wrapped in an HttpError.
awaitRejectedWrapped(c, reason) == Fail(c, "HttpError", None)

\* `await fetch(request)` with no try / catch around it: the rejection of the
\* awaited promise is thrown out of send as it is.
awaitRejected(c, reason) == Fail(c, reason, None)

\* fetch rejects (network failure, abort): send rejects with that error.
TransportRejects(reason) ==
  /\ call.pc = "fetching"
  /\ call' = awaitRejected([call EXCEPT !.rejection = Rejected(reason)], reason)
  /\ UNCHANGED <<site, notSend>>

\* The body has been read: text() stores it in content, json() parses it into
\* data (a SyntaxError ends the send); then the response interceptors start.
BodyRead ==
  /\ call.pc = "body"
  /\ \E c \in {[call EXCEPT !.response.bodyUsed = TRUE,
                            !.response.content = Str(call.response.body),
                            !.log = Append(@, Ev("bodyEnd", ""))]} :
       call' = IF ~IncludesJson(c.response.contentType)
                 THEN Round(c, "response", c.response.interceptors, 1)
               ELSE IF ~JsonParse(c.response.body).ok THEN Fail(c, "SyntaxError", None)
               ELSE Round([c EXCEPT !.response.data = JsonParse(c.response.body).v],
                          "response", c.response.interceptors, 1)
  /\ UNCHANGED <<site, notSend>>

ResponseInterceptorSettles(outcome) ==
  /\ call.pc = "response"
  /\ \E c \in {[call EXCEPT
                  !.log = Append(@, Ev("responseEnd",
                             interceptorAt(call.response.interceptors, call.idx))),
                  !.marks = Append(@, Mark("response",
                             interceptorAt(call.response.interceptors, call.idx), "late"))]} :
       call' = IF outcome = "rejects" THEN Fail(c, "InterceptorError", None)
               ELSE Round(awaited(c, resolved(interceptorAt(call.response.interceptors,
                                                            call.idx), call.held)),
                          "response", call.response.interceptors, call.idx + 1)
  /\ UNCHANGED <<site, notSend>>

\* send resumes after `await response.intercept()`: setTimeout(delay) is awaited.
ResponseIntercepted ==
  /\ call.pc = "responseDone"
  /\ call' = [call EXCEPT !.pc = "delay", !.log = Append(@, Ev("delayStart", ""))]
  /\ UNCHANGED <<site, notSend>>

\* The timer fires: send returns the response.
DelayElapses ==
  /\ call.pc = "delay"
  /\ call' = [call EXCEPT !.pc = "returned", !.got = call.held,
                          !.log = @ \o <<Ev("delayEnd", ""), Ev("return", "")>>]
  /\ UNCHANGED <<site, notSend>>

Next ==
  \/ \E config \in SendConfigs, interceptors \in SendBundles : StaticSend(config, interceptors)
  \/ \E config \in SendConfigs, interceptors \in SendBundles : InstanceSend(config, interceptors)
  \/ \E verb \in {"GET", "POST"}, config \in VerbConfigs, interceptors \in SendBundles :
       StaticVerb(verb, config, interceptors)
  \/ \E verb \in {"GET", "POST"}, config \in VerbConfigs, interceptors \in SendBundles :
       InstanceVerb(verb, config, interceptors)
  \/ \E outcome \in Outcomes : RequestInterceptorSettles(outcome)
  \/ RequestIntercepted
  \/ \E native \in NativeResponses : TransportResolves(native)
  \/ \E reason \in TransportErrors : TransportRejects(reason)
  \/ BodyRead
  \/ \E outcome \in Outcomes : ResponseInterceptorSettles(outcome)
  \/ ResponseIntercepted
  \/ DelayElapses

Spec == Init /\ [][Next]_vars


\* The interceptors a call is to run on one side: the class's, then (for a send
\* on a client) the client's, then the call's own, each function once.
Expected(side) ==
  pushUnique(<<>>, ItemsOf(site.interceptors[side])
                   \o (IF call.kind = "instance" THEN ItemsOf(site.client.interceptors[side])
                       ELSE <<>>)
                   \o ItemsOf(call.interceptors[side]))

\* Each interceptor of a list started and ended before the next one starts.
RECURSIVE Runs(_, _)
Runs(phase, list) ==
  IF list = <<>> THEN <<>>
  ELSE <<Ev(phase \o "Start", Head(list)), Ev(phase \o "End", Head(list))>>
       \o Runs(phase, Tail(list))

\* The one order of the steps of a send that succeeds.
StepsInOrder ==
  <<Ev("validated", ""), Ev("built", "")>>
  \o Runs("request", Expected("request"))
  \o <<Ev("transportStart", ""), Ev("transportEnd", ""), Ev("wrapped", ""),
       Ev("bodyStart", ""), Ev("bodyEnd", "")>>
  \o Runs("response", Expected("response"))
  \o <<Ev("delayStart", ""), Ev("delayEnd", ""), Ev("return", "")>>

IsPrefix(s, r) == Len(s) <= Len(r) /\ SubSeq(r, 1, Len(s)) = s

NotOkFails ==
  (call.pc # "idle" /\ call.native # None
   /\ (call.native.status < 200 \/ call.native.status > 299)) =>
    /\ call.pc = "failed"
    /\ call.error.name = "HttpError"
    /\ call.error.cause = call.response
    /\ call.error.cause.status = call.native.status
    /\ \A i \in 1..Len(call.log) : call.log[i].e \notin {"responseStart", "responseEnd"}

\* The transport answered 404 to a call that has response interceptors.
NotOkFailsWitness ==
  /\ call.pc = "failed" /\ call.native # None
  /\ call.native.status = 404
  /\ call.error.name = "HttpError" /\ call.error.cause.status = 404
  /\ call.responseInterceptors # <<>>

(***************************************************************************)
(* C9: a merged configuration or bundle that violates the schema (a path   *)
(* not starting with "/", a negative delay, a json string that does not    *)
(* parse, an interceptor that is no function or takes no argument) makes   *)
(* send fail with a validation error before its first suspension point: no *)
(* request interceptor, no transport call, no response interceptor.        *)
(***************************************************************************)
SchemaViolated(c) ==
  \/ c.merged["path"].t = "string" /\ ~StartsWith(c.merged["path"].v, "/")
  \/ c.merged["delay"].t = "number" /\ c.merged["delay"].v < 0
  \/ c.merged["json"].t = "string" /\ ~JsonParse(c.merged["json"].v).ok
  \/ \E side \in {"request", "response"} :
       \E i \in 1..Len(c.bundle[side].items) :
         \/ Callables[c.bundle[side].items[i]].typeof # "function"
         \/ Callables[c.bundle[side].items[i]].length = 0

ValidationFailsFirst ==
  (call.pc # "idle" /\ SchemaViolated(call)) =>
    /\ call.pc = "failed"
    /\ call.error.name = "ZodError"
    /\ call.log = <<>>

\* A path without its leading "/" in a call that has request interceptors.
ValidationFailsFirstWitness ==
  /\ call.pc = "failed" /\ call.error.name = "ZodError"
  /\ call.merged["path"] = Str(<<"p">>)
  /\ call.bundle.request.items # <<>>
  /\ InterceptorsSchemaParse(call.bundle).ok
  /\ call.log = <<>>

(***************************************************************************)
(* C10: validation of the bundle accepts an entry if and only if it is a   *)
(* named function of arity at least 1: with a configuration that is valid, *)
(* send fails with a validation error exactly when some entry of either    *)
(* list is anonymous, takes no argument or is no function.                 *)
(***************************************************************************)
NamedWithArity(x) ==
  /\ Callables[x].typeof = "function"
  /\ Callables[x].name # Undefined /\ Callables[x].name # Str(<<>>)
  /\ Callables[x].length >= 1

OnlyNamedInterceptorsAccepted ==
  (call.pc # "idle" /\ ConfigSchemaParse(call.merged).ok) =>
    ((call.pc = "failed" /\ call.error.name = "ZodError")
       <=> \E side \in {"request", "response"} :
             \E i \in 1..Len(call.bundle[side].items) :
               ~NamedWithArity(call.bundle[side].items[i]))


(***************************************************************************)
(* C11: every configuration validation accepts has a path that starts      *)
(* with "/" and, when it has an origin, an origin that does not end with   *)
(* "/", however many slashes the origin was written with.                  *)
(***************************************************************************)
AcceptedConfigNormalised ==
  call.log # <<>> =>
    /\ StartsWith(call.parsed["path"].v, "/")
    /\ call.parsed["origin"] # Undefined => ~EndsWith(call.parsed["origin"].v, "/")


(***************************************************************************)
(* C12: a request built from a configuration that carries json (an object  *)
(* or a JSON string) has the serialization of json as body, even when body *)
(* is supplied too, and a content-type that is the configured one when     *)
(* that is a JSON type and application/json;charset=UTF-8 otherwise; built *)
(* without json, its body is `body` and its content-type is the configured *)
(* one, never the JSON type put in its place.                              *)
(***************************************************************************)
Serialized(json) == IF json.t = "json" THEN JsonStringify(json) ELSE json

Positions(log, e) == {i \in 1..Len(log) : log[i].e = e}

BodyResolvedOnce ==
  call.pc = "returned" =>
    /\ Cardinality(Positions(call.log, "bodyStart")) = 1
    /\ Cardinality(Positions(call.log, "bodyEnd")) = 1
    /\ \A b \in Positions(call.log, "bodyEnd"), r \in Positions(call.log, "responseStart") :
         b < r
    /\ call.response.content = Str(call.native.text)
    /\ call.response.data =
         IF call.native.contentType \in {"application/json", "application/json;charset=UTF-8"}
           THEN JsonParse(call.native.text).v
           ELSE Null

\* Status 200 with the JSON body {"x":"5"}, returned through response interceptors.
BodyResolvedOnceWitness ==
  /\ call.pc = "returned"
  /\ call.native.text = <<"{", "\"", "x", "\"", ":", "\"", "5", "\"", "}">>
  /\ call.response.data = JsonObj("5")
  /\ call.response.content = Str(call.native.text)
  /\ Positions(call.log, "responseStart") # {}


(***************************************************************************)
(* BodySpec: the body resolution methods of an HttpResponse (text, json,   *)
(* resolveBody) called one after another on one response.                  *)

SendPrecedence ==
  IF call.kind = "instance"
    THEN mergeConfig(site.defaults, mergeConfig(site.client.defaults, call.config))
    ELSE mergeConfig(site.defaults, call.config)

VerbForcesMethod ==
  call.verb # "" =>
    /\ call.merged["method"] = Method(call.verb)
    /\ \A k \in ConfigKeys \ {"method"} : call.merged[k] = SendPrecedence[k]
    /\ call.log # <<>> => call.parsed["method"] = Method(call.verb)
    /\ call.request # None => call.request.method = call.verb

\* client.get({ method: "POST" }) returned, on a client whose defaults set
\* DELETE and whose class's defaults set PATCH.
VerbForcesMethodWitness ==
  /\ call.verb = "GET" /\ call.kind = "instance" /\ call.pc = "returned"
  /\ site.defaults["method"] = Method("PATCH")
  /\ site.client.defaults["method"] = Method("DELETE")
  /\ call.config["method"] = Method("POST")
  /\ call.request.method = "GET"



(***************************************************************************)
(* C18: the method is validated case-insensitively: a string is accepted   *)
(* if and only if, ignoring letter case, it is one of GET, HEAD, OPTIONS,  *)
(* TRACE, CONNECT, DELETE, POST, PUT, PATCH (so `Get` is accepted like     *)
(* `get` and `GET`), and an absent method defaults to GET.                 *)
(***************************************************************************)
Verbs == {"GET", "HEAD", "OPTIONS", "TRACE", "CONNECT", "DELETE", "POST", "PUT", "PATCH"}

\* The spelling in capitals of the methods the calls are made with.
ToUpperCase(m) ==
  CASE m = "Get" -> "GET"
    [] m \in MethodEnum -> UpperMethod(m)
    [] OTHER -> m

MethodCaseInsensitive ==
  call.pc # "idle" =>
    /\ Missing(call.merged["method"]) =>
         parseMethod(call.merged["method"]) = Accept(Method("GET"))
    /\ ~Missing(call.merged["method"]) =>
         (parseMethod(call.merged["method"]).ok
            <=> ToUpperCase(call.merged["method"].v) \in Verbs)



(***************************************************************************)
(* C21: within the request phase and within the response phase the         *)
(* interceptors never overlap: an interceptor is started only when what    *)
(* the one before it returned has settled, so it finds every mutation the  *)
(* earlier interceptors made, those made after their suspension points     *)
(* included; and when an interceptor fails the send is over, no later      *)
(* interceptor and no later step of the pipeline runs.                     *)
(***************************************************************************)
\* The mutations of the interceptors started before the k-th one, complete.
RECURSIVE MarksBefore(_, _)
MarksBefore(seen, k) ==
  IF k <= 1 THEN <<>>
  ELSE MarksBefore(seen, k - 1)
       \o <<Mark(seen[k - 1].phase, seen[k - 1].fn, "early"),
            Mark(seen[k - 1].phase, seen[k - 1].fn, "late")>>

InterceptorsNeverOverlap ==
  /\ \A k \in 1..Len(call.seen) : call.seen[k].saw = MarksBefore(call.seen, k)
  /\ (call.error # None /\ call.error.name = "InterceptorError") =>
       /\ call.pc = "failed"
       /\ call.log[Len(call.log)].e \in {"requestEnd", "responseEnd"}
       /\ call.log[Len(call.log)].fn = call.seen[Len(call.seen)].fn
       /\ call.marks = MarksBefore(call.seen, Len(call.seen) + 1)

\* The second response interceptor started after three request interceptors.
InterceptorsNeverOverlapWitness ==
  /\ call.pc = "response" /\ call.idx = 2
  /\ Len(call.seen) = 5
  /\ Len(call.seen[5].saw) = 8



(***************************************************************************)
(* C26: when neither the class defaults, the instance defaults nor the     *)
(* call configuration has an origin, validation accepts the configuration  *)
(* if nothing else is wrong with it, and send fails building the request:  *)
(* the error is a TypeError, not a validation error, no request was        *)
(* built, no interceptor ran and the transport was not called.             *)
(***************************************************************************)
NoOriginAnywhere ==
  /\ call.pc # "idle"
  /\ Missing(site.defaults["origin"])
  /\ call.kind = "instance" => Missing(site.client.defaults["origin"])
  /\ Missing(call.config["origin"])

MissingOriginFailsBuilding ==
  NoOriginAnywhere =>
    /\ ConfigSchemaParse(call.merged).ok
         <=> ConfigSchemaParse([call.merged EXCEPT !["origin"] = Origin]).ok
    /\ ~SchemaViolated(call) =>
         /\ call.pc = "failed"
         /\ call.error = Thrown("TypeError", None)
         /\ call.log = <<Ev("validated", "")>>
         /\ call.parsed["origin"] = Undefined
         /\ call.request = None /\ call.seen = <<>>
         /\ call.native = None /\ call.rejection = None

\* An instance send with interceptors at every layer and no origin at any.
MissingOriginFailsBuildingWitness ==
  /\ NoOriginAnywhere /\ call.kind = "instance"
  /\ call.pc = "failed" /\ call.error.name = "TypeError"
  /\ call.bundle.request.items = <<"g", "h">>
  /\ call.parsed["method"] = Method("DELETE")



(***************************************************************************)
(* C24: what an interceptor returns or resolves to is dropped: every       *)
(* request interceptor, and then the transport, is given the request that  *)
(* send built, and every response interceptor, and then the caller, the    *)
(* response that send built, also after an interceptor that resolved to    *)
(* another object.                                                         *)
(***************************************************************************)
InterceptorResultDiscarded ==
  /\ \A k \in 1..Len(call.seen) : call.seen[k].obj = call.seen[k].phase
  /\ call.sent \in {"none", "request"}
  /\ call.got \in {"none", "response"}
  /\ call.pc \in {"fetching", "body", "response", "responseDone", "delay", "returned"}
       => call.sent = "request"
  /\ call.pc = "returned" => call.got = "response"

\* A send that returned after a request interceptor and a response interceptor
\* resolved to objects of their own, each followed by another interceptor.
InterceptorResultDiscardedWitness ==
  /\ call.pc = "returned"
  /\ \E k \in 1..(Len(call.seen) - 1) :
       /\ call.seen[k].phase = "request" /\ call.seen[k + 1].phase = "request"
       /\ resolved(call.seen[k].fn, "request") = "other"
  /\ \E k \in 1..(Len(call.seen) - 1) :
       /\ call.seen[k].phase = "response" /\ call.seen[k + 1].phase = "response"
       /\ resolved(call.seen[k].fn, "response") = "other"



(***************************************************************************)
(* C23: mergeConfig is associative, headers included: the configuration an *)
(* instance send validates, mergeConfig(A, mergeConfig(B, C)) for class    *)
(* defaults A, instance defaults B and call configuration C, is            *)
(* mergeConfig(mergeConfig(A, B), C), in which C wins over B and B over A  *)
(* for every key and every header name.                                    *)
(***************************************************************************)
\* The layer that decides a key: the last that has it.
Decides(a, b, c, k) ==
  IF c[k] # Absent THEN c[k] ELSE IF b[k] # Absent THEN b[k] ELSE a[k]

\* The layer that decides a header: the last whose map has the name.
LayerMap(x) == applyHeaders(EmptyMap, Get(x, "headers"))
DecidesHeader(a, b, c, n) ==
  IF n \in DOMAIN LayerMap(c) THEN LayerMap(c)[n]
  ELSE IF n \in DOMAIN LayerMap(b) THEN LayerMap(b)[n] ELSE LayerMap(a)[n]

MergeConfigAssociative ==
  (args.op = "send" /\ result # Pending) =>
    /\ result.v = mergeConfig(mergeConfig(args.a, args.b), args.c)
    /\ \A k \in RestKeys : result.v[k] = Decides(args.a, args.b, args.c, k)
    /\ DOMAIN result.v["headers"].map
         = DOMAIN LayerMap(args.a) \cup DOMAIN LayerMap(args.b) \cup DOMAIN LayerMap(args.c)
    /\ \A n \in DOMAIN result.v["headers"].map :
         result.v["headers"].map[n] = DecidesHeader(args.a, args.b, args.c, n)

\* All three layers set the delay and the header "a", each to another value
\* than the layer before it.
MergeConfigAssociativeWitness ==
  /\ args.op = "send" /\ result # Pending
  /\ args.a["delay"] = Num(5) /\ args.b["delay"] = Undefined /\ args.c["delay"] = Absent
  /\ args.a["headers"] = Hdrs([n \in {"a", "b"} |-> "2"])
  /\ args.b["headers"] = Plain(<<(<<"a", "2">>), (<<"A", "1">>)>>)
  /\ args.c["headers"] = Plain(<<(<<"A", "2">>), (<<"b", "1">>)>>)
  /\ result.v["delay"] = Undefined
  /\ result.v["headers"].map = [n \in {"a", "b"} |-> IF n = "a" THEN "2" ELSE "1"]


(***************************************************************************)
MaxResolutions == 3   \* calls made on the response

\* The statuses of a response that has no body (its body is null).
NullBodyStatuses == {204, 205, 304}

\* Response.prototype.text.call(this): a null body reads as "" and is never
\* used up; a body already used is a TypeError; else the body is read.
nativeText(r) ==
  IF r.status \in NullBodyStatuses
    THEN [ok |-> TRUE, error |-> "", text |-> <<>>, response |-> r, reads |-> 0]
  ELSE IF r.bodyUsed
    THEN [ok |-> FALSE, error |-> "TypeError", text |-> <<>>, response |-> r, reads |-> 0]
  ELSE [ok |-> TRUE, error |-> "", text |-> r.body,
        response |-> [r EXCEPT !.bodyUsed = TRUE], reads |-> 1]

\* this.content = await Response.prototype.text.call(this)
textAssign(n) ==
  IF n.ok THEN [n EXCEPT !.response.content = Str(n.text)] ELSE n
text(r) == textAssign(nativeText(r))

\* this.data = JSON.parse(await this.text())
jsonAssign(x) ==
  IF ~x.ok THEN x
  ELSE IF ~JsonParse(x.text).ok THEN [x EXCEPT !.ok = FALSE, !.error = "SyntaxError"]
  ELSE [x EXCEPT !.response.data = JsonParse(x.text).v]
json(r) == jsonAssign(text(r))

\* resolveBody() as a whole: nothing is done on a body already used.
resolveBodyOf(r) ==
  IF ~r.bodyUsed
    THEN (IF IncludesJson(r.contentType) THEN json(r) ELSE text(r))
    ELSE [ok |-> TRUE, error |-> "", text |-> <<>>, response |-> r, reads |-> 0]

BodyInit ==
  /\ MergeIdle /\ LineageIdle /\ SendIdle /\ SharingIdle /\ CacheIdle
  /\ \E native \in NativeResponses :
       res = [response |-> NewHttpResponse(native), reads |-> 0, calls |-> <<>>]

\* A call settled: the response as the method left it, one more entry in the
\* history of calls.
Settled(op, x) ==
  [response |-> x.response,
   reads |-> res.reads + x.reads,
   calls |-> Append(res.calls,
                    [op |-> op, ok |-> x.ok, error |-> x.error,
                     content |-> x.response.content, data |-> x.response.data])]

CallText ==
  /\ Len(res.calls) < MaxResolutions
  /\ res' = Settled("text", text(res.response))
  /\ UNCHANGED notBody

CallJson ==
  /\ Len(res.calls) < MaxResolutions
  /\ res' = Settled("json", json(res.response))
  /\ UNCHANGED notBody

CallResolveBody ==
  /\ Len(res.calls) < MaxResolutions
  /\ res' = Settled("resolveBody", resolveBodyOf(res.response))
  /\ UNCHANGED notBody

BodyNext == CallText \/ CallJson \/ CallResolveBody

BodySpec == BodyInit /\ [][BodyNext]_vars

(***************************************************************************)
(* C14: body resolution is idempotent.  After a call of text(), json() or  *)
(* resolveBody() that succeeded, every later call of one of them (json()   *)
(* on a body that is JSON) succeeds too and leaves content as the earlier  *)
(* call set it (and data, when the later call is of the same method or of  *)
(* resolveBody), and the underlying body is read at most once.             *)
(***************************************************************************)
BodyResolutionIdempotent ==
  /\ res.reads <= 1
  /\ \A i, j \in 1..Len(res.calls) :
       (i < j /\ res.calls[i].ok
        /\ (res.calls[j].op = "json" => JsonParse(res.response.body).ok)) =>
         /\ res.calls[j].ok
         /\ res.calls[j].content = res.calls[i].content
         /\ res.calls[j].op \in {res.calls[i].op, "resolveBody"}
              => res.calls[j].data = res.calls[i].data


(***************************************************************************)
(* SharingSpec: sends in flight at once on the heap of LineageSpec.  A     *)
(* send builds its request from freshly merged objects; interceptors of a  *)
(* call in flight mutate what they are handed (the request, its headers    *)
(* and list, the response, its list and content) between the steps of the  *)
(* other calls.  Validation is the subject of Spec and is left out here:   *)
(* the configurations drawn are valid, and a valid Headers object or       *)
(* function list passes the schema as the object it is.                    *)
(***************************************************************************)
MaxFlights == 2   \* sends in flight at once
MaxTouches == 1   \* mutations the interceptors of one call make

RequestObj(headers, interceptors) ==
  [t |-> "request", headers |-> headers, interceptors |-> interceptors]
ResponseObj(request, interceptors, content) ==
  [t |-> "response", request |-> request, interceptors |-> interceptors, content |-> content]

\* new HttpRequest(url, init).addInterceptors(...fns): the native Request copies
\* init.headers into its own Headers, and the `interceptors = []` field is the
\* request's own list.
newRequest(h, map, fns) ==
  [heap |-> h \o <<Hdrs(map), Arr(pushUnique(<<>>, fns)),
                   RequestObj(Ref(Len(h) + 1), Ref(Len(h) + 2))>>,
   ref |-> Ref(Len(h) + 3)]

\* new HttpResponse(native, request).addInterceptors(...fns)
newResponse(h, request, fns) ==
  [heap |-> h \o <<Arr(pushUnique(<<>>, fns)),
                   ResponseObj(request, Ref(Len(h) + 1), "c")>>,
   ref |-> Ref(Len(h) + 2)]

\* A send that builds the request on the class's own header collection and
\* request list instead of merged copies.
staticSendHeadOnDefaults(h, st, c, config, bundle) ==
  [heap |-> Append(h, RequestObj(ConfigAt(h, StaticGet(st, c, "defaults"))["headers"],
                                 BundleAt(h, StaticGet(st, c, "interceptors")).request)),
   request |-> Ref(Len(h) + 1),
   interceptors |-> StaticGet(st, c, "interceptors"),
   delay |-> parseDelay(ConfigAt(h, StaticGet(st, c, "defaults"))["delay"]).v]

\* static send up to its first await: the two merges onto the class's statics
\* and the request built from them; `delay` and `interceptors` are constants of
\* the call.
sendRequest(mc, mi) ==
  [heap |-> newRequest(mi.heap,
                       Resolve(mi.heap, ConfigAt(mi.heap, mc.ref)["headers"]).map,
                       Resolve(mi.heap, BundleAt(mi.heap, mi.ref).request).items).heap,
   request |-> Ref(Len(mi.heap) + 3),
   interceptors |-> mi.ref,
   delay |-> parseDelay(ConfigAt(mi.heap, mc.ref)["delay"]).v]

\* A mutant of sendInterceptors: the call keeps the class's own bundle instead
\* of the merged one.
sendInterceptorsOfClass(mc, st, c, bundle) ==
  sendRequest(mc, [heap |-> mc.heap, ref |-> StaticGet(st, c, "interceptors")])

sendInterceptors(mc, st, c, bundle) ==
  sendRequest(mc, HeapMergeInterceptors(mc.heap,
                    BundleAt(mc.heap, StaticGet(st, c, "interceptors")), bundle))
staticSendHead(h, st, c, config, bundle) ==
  sendInterceptors(HeapMergeConfig(h, ConfigAt(h, StaticGet(st, c, "defaults")), config),
                   st, c, bundle)

\* send on client p: the two merges onto p's own defaults and interceptors,
\* handed to the static send of p's class.
instanceSendSuper(st, p, mc, mi) ==
  staticSendHead(mi.heap, st, p.cls, ConfigAt(mi.heap, mc.ref), BundleAt(mi.heap, mi.ref))
\* A mutant of instanceSendInterceptors: the call's lists before the client's.
instanceSendInterceptorsCallFirst(st, p, mc, bundle) ==
  instanceSendSuper(st, p, mc,
    HeapMergeInterceptors(mc.heap, bundle, BundleAt(mc.heap, p.interceptors)))

instanceSendInterceptors(st, p, mc, bundle) ==
  instanceSendSuper(st, p, mc,
    HeapMergeInterceptors(mc.heap, BundleAt(mc.heap, p.interceptors), bundle))
instanceSendHead(h, st, p, config, bundle) ==
  instanceSendInterceptors(st, p, HeapMergeConfig(h, ConfigAt(h, p.defaults), config),
                           bundle)

IdleFlight ==
  [pc |-> "idle", by |-> Absent, request |-> Absent, response |-> Absent,
   interceptors |-> Absent, delay |-> Absent, touches |-> 0]

InFlight(f) == f.pc \in {"request", "response"}

\* Start-up: the classes loaded, HttpClient.defineInterceptors({request: [h]})
\* and one WebScraper client created with headers {a: "1"} and interceptors f, g.
SharingLoaded ==
  LET d == defineInterceptors(Loaded.heap, Loaded.statics, "HttpClient",
                              [request |-> Arr(<<"h">>), response |-> Undefined])
      n == constructor(d.heap, d.statics, "WebScraper",
                       [EmptyConfig EXCEPT !["headers"] = Plain(<<(<<"a", "1">>)>>)],
                       [request |-> Arr(<<"f">>), response |-> Arr(<<"g">>)])
  IN  Settle(n.heap, d.statics,
             [i \in 1..MaxInstances |-> IF i = 1 THEN n.client ELSE NoInstance])

SharingInit ==
  /\ MergeIdle /\ SendIdle /\ BodyIdle /\ CacheIdle
  /\ heap = SharingLoaded.heap
  /\ statics = SharingLoaded.statics
  /\ instances = SharingLoaded.instances
  /\ budget = [defines |-> 0, mutations |-> 0]
  /\ last = [op |-> "load"]
  /\ flights = [i \in 1..MaxFlights |-> IdleFlight]

Senders == {ClassOwner("WebScraper"), ClientOwner(1)}

\* owner.send(config, interceptors), up to `await request.intercept()`.
FlightSend(i, o, config, interceptors) ==
  /\ flights[i].pc = "idle"
  /\ \E r \in {IF o.kind = "class"
                 THEN staticSendHead(heap, statics, o.cls, config, interceptors)
                 ELSE instanceSendHead(heap, statics, instances[o.idx], config,
                                       interceptors)} :
       /\ heap' = r.heap
       /\ flights' = [flights EXCEPT ![i] =
                        [pc |-> "request", by |-> o, request |-> r.request,
                         response |-> Absent, interceptors |-> r.interceptors,
                         delay |-> r.delay, touches |-> 0]]
  /\ UNCHANGED notSharing

\* An interceptor of call i: request.headers.set / .delete (a response
\* interceptor reaches the request as response.request).
TouchHeaders(i, how, name) ==
  /\ InFlight(flights[i])
  /\ flights[i].touches < MaxTouches
  /\ LET hr == heap[flights[i].request.a].headers
     IN  /\ hr.t = "ref"
         /\ heap' = [heap EXCEPT ![hr.a] =
                       Hdrs(IF how = "set" THEN HeadersSet(heap[hr.a].map, name, "9")
                            ELSE HeadersDelete(heap[hr.a].map, name))]
  /\ flights' = [flights EXCEPT ![i].touches = @ + 1]
  /\ UNCHANGED notSharing

\* An interceptor of call i: request.interceptors.push(fn)
TouchRequestList(i) ==
  /\ InFlight(flights[i])
  /\ flights[i].touches < MaxTouches
  /\ LET lr == heap[flights[i].request.a].interceptors
     IN  heap' = [heap EXCEPT ![lr.a] = Arr(Append(heap[lr.a].items, "k"))]
  /\ flights' = [flights EXCEPT ![i].touches = @ + 1]
  /\ UNCHANGED notSharing

\* A response interceptor of call i: response.interceptors.push(fn) or
\* response.content = "x"
TouchResponse(i, what) ==
  /\ flights[i].pc = "response"
  /\ flights[i].touches < MaxTouches
  /\ LET a == flights[i].response.a
         lr == heap[a].interceptors
     IN  heap' = IF what = "push"
                   THEN [heap EXCEPT ![lr.a] = Arr(Append(heap[lr.a].items, "k"))]
                   ELSE [heap EXCEPT ![a] = ResponseObj(heap[a].request, lr, "x")]
  /\ flights' = [flights EXCEPT ![i].touches = @ + 1]
  /\ UNCHANGED notSharing

\* fetch(request) resolves: the response is built around the request and the
\* validated response interceptors are added to its own list.
FlightFetched(i) ==
  /\ flights[i].pc = "request"
  /\ \E r \in {newResponse(heap, flights[i].request,
                           Resolve(heap, BundleAt(heap, flights[i].interceptors).response).items)} :
       /\ heap' = r.heap
       /\ flights' = [flights EXCEPT ![i].pc = "response", ![i].response = r.ref]
  /\ UNCHANGED notSharing

\* The response interceptors and the delay are over: send returns.
FlightReturned(i) ==
  /\ flights[i].pc = "response"
  /\ flights' = [flights EXCEPT ![i].pc = "returned"]
  /\ UNCHANGED <<heap, notSharing>>

SharingNext ==
  \/ \E i \in DOMAIN flights, o \in Senders, config \in ConfigArgs \ {EmptyConfig},
        interceptors \in BundleArgs :
       FlightSend(i, o, [config EXCEPT !["json"] = Absent], interceptors)
  \/ \E i \in DOMAIN flights :
       \E m \in {<<"set", "m">>, <<"delete", "content-type">>} :
         TouchHeaders(i, m[1], m[2])
  \/ \E i \in DOMAIN flights : TouchRequestList(i)
  \/ \E i \in DOMAIN flights, what \in {"push", "content"} : TouchResponse(i, what)
  \/ \E i \in DOMAIN flights : FlightFetched(i)
  \/ \E i \in DOMAIN flights : FlightReturned(i)

SharingSpec == SharingInit /\ [][SharingNext]_vars

\* What call f sends and runs: its request's headers and list, its response's
\* list and content, and the response interceptors still to be added.
FlightView(h, f) ==
  [request |-> IF f.request = Absent THEN Absent
               ELSE [headers |-> Resolve(h, h[f.request.a].headers),
                     interceptors |-> Resolve(h, h[f.request.a].interceptors)],
   response |-> IF f.response = Absent THEN Absent
                ELSE [interceptors |-> Resolve(h, h[f.response.a].interceptors),
                      content |-> h[f.response.a].content],
   pending |-> IF f.interceptors = Absent THEN Absent
               ELSE DeepBundle(h, f.interceptors).response]

\* The objects call f holds: the request, its headers and list, the response
\* and its list.
FlightAddrs(h, f) ==
  IF f.request = Absent THEN {}
  ELSE {f.request.a}
       \cup {v.a : v \in {w \in {h[f.request.a].headers, h[f.request.a].interceptors} :
                            w.t = "ref"}}
       \cup (IF f.response = Absent THEN {}
             ELSE {f.response.a, h[f.response.a].interceptors.a})

\* The objects an owner's defaults and interceptors are made of.
OwnerAddrs(h, st, inst, o) ==
  {a \in DOMAIN h :
     \/ Includes(ConfigAddrs(h, OwnerDefaults(st, inst, o)), a)
     \/ Includes(BundleAddrs(h, OwnerInterceptors(st, inst, o)), a)}

(***************************************************************************)
(* C15: sends running concurrently on the same client or class share no    *)
(* mutable state.  Each call has its own request object, header collection *)
(* and interceptor lists (no object of one call in flight is an object of  *)
(* another call or of an owner), and no step of one call (its start, a     *)
(* mutation by one of its interceptors, its response) changes what another *)
(* call sends or runs, nor any class's or client's defaults and            *)
(* interceptors.                                                           *)
(***************************************************************************)
OwnObjects ==
  \A i \in DOMAIN flights :
    /\ \A j \in DOMAIN flights \ {i} :
         FlightAddrs(heap, flights[i]) \cap FlightAddrs(heap, flights[j]) = {}
    /\ \A o \in Owners(instances) :
         FlightAddrs(heap, flights[i]) \cap OwnerAddrs(heap, statics, instances, o) = {}

SendsFrame ==
  /\ \A o \in Owners(instances) :
       View(heap', statics, instances, o) = View(heap, statics, instances, o)
  /\ \A j \in DOMAIN flights :
       flights'[j] = flights[j] =>
         FlightView(heap', flights[j]) = FlightView(heap, flights[j])

ConcurrentSendsShareNothing == []OwnObjects /\ [][SendsFrame]_vars

\* Two calls of the same sender in flight, the first having mutated.
ConcurrentSendsShareNothingWitness ==
  /\ flights # <<>>
  /\ flights[1].pc = "response" /\ InFlight(flights[2])
  /\ flights[1].by = flights[2].by
  /\ flights[1].touches >= 1
  /\ FlightView(heap, flights[1]).request.headers
       # FlightView(heap, flights[2]).request.headers


(***************************************************************************)
(* CacheSpec: the scraper's HTML cache.  Strings are sequences of UTF-16   *)
(* code units, files hold bytes, a path is resolved segment by segment.    *)
(***************************************************************************)
MaxCacheOps == 3   \* cache operations in one run

\* Buffer.from(s, "utf-8"): one byte for an ASCII unit, two for U+00E9, four
\* for a surrogate pair, U+FFFD for a lone surrogate.
RECURSIVE utf8Encode(_)
utf8Encode(s) ==
  IF s = <<>> THEN <<>>
  ELSE IF Head(s) = "HI" /\ Len(s) >= 2 /\ s[2] = "LO"
    THEN <<"F0", "9F", "98", "80">> \o utf8Encode(Tail(Tail(s)))
  ELSE IF Head(s) \in {"HI", "LO"} THEN <<"EF", "BF", "BD">> \o utf8Encode(Tail(s))
  ELSE IF Head(s) = "e'" THEN <<"C3", "A9">> \o utf8Encode(Tail(s))
  ELSE <<Head(s)>> \o utf8Encode(Tail(s))

\* buffer.toString("utf-8")
RECURSIVE utf8Decode(_)
utf8Decode(b) ==
  IF b = <<>> THEN <<>>
  ELSE IF Len(b) >= 4 /\ SubSeq(b, 1, 4) = <<"F0", "9F", "98", "80">>
    THEN <<"HI", "LO">> \o utf8Decode(SubSeq(b, 5, Len(b)))
  ELSE IF Len(b) >= 3 /\ SubSeq(b, 1, 3) = <<"EF", "BF", "BD">>
    THEN <<"FFFD">> \o utf8Decode(SubSeq(b, 4, Len(b)))
  ELSE IF Len(b) >= 2 /\ SubSeq(b, 1, 2) = <<"C3", "A9">>
    THEN <<"e'">> \o utf8Decode(SubSeq(b, 3, Len(b)))
  ELSE <<Head(b)>> \o utf8Decode(Tail(b))

\* The segments of a path: what lies between its separators, in order.
RECURSIVE Segments(_, _)
Segments(path, cur) ==
  IF path = <<>> THEN (IF cur = <<>> THEN <<>> ELSE <<cur>>)
  ELSE IF Head(path) = "/"
    THEN (IF cur = <<>> THEN <<>> ELSE <<cur>>) \o Segments(Tail(path), <<>>)
  ELSE Segments(Tail(path), Append(cur, Head(path)))

Prefixes(segs) == {SubSeq(segs, 1, n) : n \in 0..Len(segs)}
Parent(segs) == SubSeq(segs, 1, Len(segs) - 1)

\* mkdirSync(path, { recursive: true }): the directory and every missing
\* ancestor, unless a file is in the way.
mkdirSync(fs, path) ==
  IF Prefixes(Segments(path, <<>>)) \cap DOMAIN fs.files # {}
    THEN [ok |-> FALSE, fs |-> fs]
    ELSE [ok |-> TRUE, fs |-> [fs EXCEPT !.dirs = @ \cup Prefixes(Segments(path, <<>>))]]

\* writeFileSync(path, content, "utf-8"): the file is created or replaced in
\* its directory, which must exist (ENOENT otherwise).
writeFileSync(fs, path, content) ==
  IF \/ Segments(path, <<>>) = <<>>
     \/ Parent(Segments(path, <<>>)) \notin fs.dirs
     \/ Segments(path, <<>>) \in fs.dirs
    THEN [ok |-> FALSE, fs |-> fs]
    ELSE [ok |-> TRUE,
          fs |-> [fs EXCEPT !.files =
                    [f \in DOMAIN @ \cup {Segments(path, <<>>)} |->
                       IF f = Segments(path, <<>>) THEN utf8Encode(content) ELSE @[f]]]]

\* existsSync(path)
existsSync(fs, path) ==
  Segments(path, <<>>) \in fs.dirs \cup DOMAIN fs.files

\* readFileSync(path, "utf-8")
readFileSync(fs, path) ==
  IF Segments(path, <<>>) \in DOMAIN fs.files
    THEN [ok |-> TRUE, v |-> utf8Decode(fs.files[Segments(path, <<>>)])]
    ELSE [ok |-> FALSE, v |-> <<>>]

\* `${dir}/${name}.html`
htmlPath(dir, name) == dir \o <<"/">> \o name \o <<".html">>

\* A mutant of getPathToCache: `${this.CACHE_DIR}/${id}`, the extension forgotten.
getPathToCacheNoExtension(dir, id) == dir \o <<"/">> \o id

\* static getPathToCache(id), dir being this.CACHE_DIR
getPathToCache(dir, id) == dir \o <<"/">> \o id \o <<".html">>

\* new URL(url).pathname for the urls of the model (scheme and host are
\* written without a separator): from the first "/" to the query or fragment.
RECURSIVE UpTo(_, _)
UpTo(s, stops) ==
  IF s = <<>> \/ Head(s) \in stops THEN <<>> ELSE <<Head(s)>> \o UpTo(Tail(s), stops)
pathname(url) ==
  IF Len(UpTo(url, {"/", "?", "#"})) = Len(url) \/ url[Len(UpTo(url, {"/", "?", "#"})) + 1] # "/"
    THEN <<"/">>
    ELSE UpTo(SubSeq(url, Len(UpTo(url, {"/"})) + 1, Len(url)), {"?", "#"})

\* static getCacheId(url): url.pathname.substring(1)
getCacheId(url) == Tail(pathname(url))

\* static hasCache(id)
hasCache(c, id) == existsSync(c.fs, getPathToCache(c.dir, id))

\* readHtmlFromCache(dir, name)
readHtmlFromCache(c, dir, name) == readFileSync(c.fs, htmlPath(dir, name))

\* static buildResult(html): { source: html, $: toCheerio(html) }; the query
\* engine is a library, `$` is kept as the html it was loaded from.
buildResult(html) == [source |-> html, loaded |-> html]

\* static getFromCache(id)
getFromCache(c, id) ==
  IF readHtmlFromCache(c, c.dir, id).ok
    THEN [ok |-> TRUE, v |-> buildResult(readHtmlFromCache(c, c.dir, id).v)]
    ELSE [ok |-> FALSE, v |-> buildResult(<<>>)]

\* writeHtmlToCache(dir, name, content): mkdirSync(dir), then writeFileSync.
writeHtmlToCache(fs, dir, name, content) ==
  IF ~mkdirSync(fs, dir).ok THEN [ok |-> FALSE, fs |-> fs]
  ELSE IF ~writeFileSync(mkdirSync(fs, dir).fs, htmlPath(dir, name), content).ok
    THEN [ok |-> FALSE, fs |-> mkdirSync(fs, dir).fs]
  ELSE writeFileSync(mkdirSync(fs, dir).fs, htmlPath(dir, name), content)

\* writeHtmlToCacheInterceptor(response), bound to the scraper class.
writeHtmlToCacheInterceptor(c, response) ==
  writeHtmlToCache(c.fs, c.dir, getCacheId(response.url), response.content)

\* The values of CACHE_DIR, the HTML contents, the cache ids and the responses.
CacheDirs == {<<"c">>, <<"d", "/", "c">>}
Contents == {<<"h", "i">>, <<"<", "e'", ">">>, <<"HI", "LO">>}
CacheIds == {<<"f", "o", "o">>, <<"a">>, <<"a", "/", "b">>, <<>>}
CacheResponses ==
  {[url |-> u, content |-> k] :
     u \in {<<"s", ":", "h", "/", "f", "o", "o">>, <<"s", ":", "h", "/", "a", "/", "b">>,
            <<"s", ":", "h", "/", "a", "?", "q">>, <<"s", ":", "h">>},
     k \in {<<"h", "i">>, <<"e'">>}}

\* The file systems the program starts on: nothing but the working directory,
\* or a cache directory that holds the directory `a` already.
StartDirs(dir) ==
  {{<<>>}, Prefixes(Segments(dir \o <<"/", "a">>, <<>>))}

NoOp == [op |-> "none", id |-> <<>>, ok |-> TRUE, found |-> FALSE, source |-> <<>>,
         content |-> <<>>, transport |-> 0]

CacheInit ==
  /\ MergeIdle /\ LineageIdle /\ SendIdle /\ BodyIdle /\ SharingIdle
  /\ \E dir \in CacheDirs : \E dirs \in StartDirs(dir) :
       cache = [dir |-> dir, fs |-> [dirs |-> dirs, files |-> <<>>],
                written |-> <<>>, transport |-> 0, ops |-> 0, last |-> NoOp]

\* What a write leaves: the file system, and the content last written with
\* success under each id.
Wrote(c, id, content, w, op) ==
  [c EXCEPT !.fs = w.fs,
            !.written = IF w.ok
                          THEN [i \in DOMAIN @ \cup {id} |-> IF i = id THEN content ELSE @[i]]
                          ELSE @,
            !.ops = @ + 1,
            !.last = [NoOp EXCEPT !.op = op, !.id = id, !.ok = w.ok, !.content = content,
                                  !.transport = c.transport]]

\* writeHtmlToCache(CACHE_DIR, id, content), called by client code.
WriteHtmlToCache(id, content) ==
  /\ cache.ops < MaxCacheOps
  /\ cache' = Wrote(cache, id, content,
                    writeHtmlToCache(cache.fs, cache.dir, id, content), "write")
  /\ UNCHANGED notCache

\* A send whose response interceptors hold the cache write interceptor: the
\* transport answers, the interceptor writes the content under the id of the
\* request's url (a failed write fails the send).
SendCaching(response) ==
  /\ cache.ops < MaxCacheOps
  /\ cache' = Wrote([cache EXCEPT !.transport = @ + 1],
                    getCacheId(response.url), response.content,
                    writeHtmlToCacheInterceptor(cache, response), "intercept")
  /\ UNCHANGED notCache

\* WebScraper.hasCache(id)
HasCache(id) ==
  /\ cache.ops < MaxCacheOps
  /\ cache' = [cache EXCEPT !.ops = @ + 1,
                 !.last = [NoOp EXCEPT !.op = "hasCache", !.id = id,
                                       !.found = hasCache(cache, id),
                                       !.transport = cache.transport]]
  /\ UNCHANGED notCache

\* WebScraper.getFromCache(id)
GetFromCache(id) ==
  /\ cache.ops < MaxCacheOps
  /\ cache' = [cache EXCEPT !.ops = @ + 1,
                 !.last = [NoOp EXCEPT !.op = "getFromCache", !.id = id,
                                       !.ok = getFromCache(cache, id).ok,
                                       !.source = getFromCache(cache, id).v.source,
                                       !.transport = cache.transport]]
  /\ UNCHANGED notCache

\* readHtmlFromCache(CACHE_DIR, id), called by client code.
ReadHtmlFromCache(id) ==
  /\ cache.ops < MaxCacheOps
  /\ cache' = [cache EXCEPT !.ops = @ + 1,
                 !.last = [NoOp EXCEPT !.op = "readHtmlFromCache", !.id = id,
                                       !.ok = readHtmlFromCache(cache, cache.dir, id).ok,
                                       !.source = readHtmlFromCache(cache, cache.dir, id).v,
                                       !.transport = cache.transport]]
  /\ UNCHANGED notCache

CacheNext ==
  \/ \E id \in CacheIds, content \in Contents : WriteHtmlToCache(id, content)
  \/ \E response \in CacheResponses : SendCaching(response)
  \/ \E id \in CacheIds : HasCache(id)
  \/ \E id \in CacheIds : GetFromCache(id)
  \/ \E id \in CacheIds : ReadHtmlFromCache(id)

CacheSpec == CacheInit /\ [][CacheNext]_vars

CacheWriteSucceeds ==
  cache.last.op \in {"write", "intercept"} =>
    /\ cache.last.ok
    /\ Parent(Segments(htmlPath(cache.dir, cache.last.id), <<>>)) \in cache.fs.dirs
    /\ hasCache(cache, cache.last.id)


(***************************************************************************)
(* LayersSpec: the classes HttpClient, WebScraper and a second subclass,   *)
(* class-level definitions, constructions, forks, and sends on clients.    *)
(* A send records in `last` the interceptors it runs.                      *)
(***************************************************************************)
Subclasses == {"WebScraper", "OtherScraper"}

\* Start-up: the state LineageSpec starts in, and a subclass that defines
\* nothing of its own.
LayersLoaded ==
  Settle(Loaded.heap,
         [c \in Classes \cup Subclasses |->
            IF c \in Classes THEN Loaded.statics[c]
            ELSE [defaults |-> Absent, interceptors |-> Absent]],
         [i \in 1..MaxInstances |-> NoInstance])

LayersInit ==
  /\ MergeIdle /\ SendIdle /\ BodyIdle /\ SharingIdle /\ CacheIdle
  /\ heap = LayersLoaded.heap
  /\ statics = LayersLoaded.statics
  /\ instances = LayersLoaded.instances
  /\ budget = [defines |-> 0, mutations |-> 0]
  /\ last = [op |-> "load"]

\* The interceptors a send runs: the request's own list, and the list the
\* response is given by addInterceptors.
runList(fns) == pushUnique(<<>>, fns)

\* client.send({}, interceptors) on client p, up to `await request.intercept()`.
\* What the send allocates is its own; the owners' objects stay as they are.
ClientSend(p, interceptors) ==
  /\ instances[p] # NoInstance
  /\ \E r \in {instanceSendHead(heap, statics, instances[p], EmptyConfig, interceptors)} :
     \E s \in {Settle(r.heap, statics, instances)} :
       /\ heap' = s.heap /\ statics' = s.statics /\ instances' = s.instances
       /\ last' = [op |-> "send", p |-> p, interceptors |-> interceptors,
                   request |-> Resolve(r.heap, r.heap[r.request.a].interceptors).items,
                   response |-> runList(Resolve(r.heap,
                                          BundleAt(r.heap, r.interceptors).response).items)]
  /\ UNCHANGED <<budget, notLineage>>

LayerBundles ==
  {[request |-> Undefined, response |-> Undefined],
   [request |-> Arr(<<"f">>), response |-> Arr(<<"g">>)],
   [request |-> Arr(<<"g", "h", "f">>), response |-> Arr(<<"h">>)]}

LayersNext ==
  \/ \E c \in DOMAIN statics :
       DefineDefaults(c, [EmptyConfig EXCEPT !["headers"] = Plain(<<(<<"b", "2">>)>>),
                                             !["delay"] = Num(5),
                                             !["json"] = JsonLiteral("1")])
  \/ \E c \in DOMAIN statics :
       \E interceptors \in {[request |-> Arr(<<"h">>), response |-> Undefined],
                            [request |-> Arr(<<"g">>), response |-> Arr(<<"f", "g">>)]} :
         DefineInterceptors(c, interceptors)
  \/ \E c \in DOMAIN statics, interceptors \in BundleArgs :
       Create(c, EmptyConfig, interceptors)
  \/ \E p \in DOMAIN instances, interceptors \in BundleArgs :
       Fork(p, [EmptyConfig EXCEPT !["headers"] = Plain(<<(<<"a", "1">>)>>)], interceptors)
  \/ \E p \in DOMAIN instances, interceptors \in LayerBundles : ClientSend(p, interceptors)

LayersSpec == LayersInit /\ [][LayersNext]_vars

(***************************************************************************)
(* C22: the request (response) interceptors an instance send runs are the  *)
(* class-level list, then the instance-level list, then the per-call list, *)
(* each interceptor once at its first place: an interceptor of an earlier  *)
(* layer runs before every interceptor that only a later layer has.        *)
(***************************************************************************)
ClassList(side) ==
  ItemsOf(DeepBundle(heap, StaticGet(statics, instances[last.p].cls, "interceptors"))[side])
InstanceList(side) == ItemsOf(DeepBundle(heap, instances[last.p].interceptors)[side])
CallList(side) == ItemsOf(last.interceptors[side])

\* In `run`, every item of `earlier` comes before every item that is not in it.
LayerFirst(run, earlier) ==
  \A i, j \in 1..Len(run) :
    (Includes(earlier, run[i]) /\ ~Includes(earlier, run[j])) => i < j

SendRunsLayersInOrder ==
  last.op = "send" =>
    \A side \in {"request", "response"} :
      /\ IsFirstOccurrences(last[side],
                            ClassList(side) \o InstanceList(side) \o CallList(side))
      /\ LayerFirst(last[side], ClassList(side))
      /\ LayerFirst(last[side], ClassList(side) \o InstanceList(side))

\* The class got h after the client was constructed with f; the call passes
\* g, h, f: each runs once, h first.
SendRunsLayersInOrderWitness ==
  /\ last.op = "send"
  /\ ClassList("request") = <<"h">>
  /\ InstanceList("request") = <<"f">>
  /\ CallList("request") = <<"g", "h", "f">>
  /\ last.request = <<"h", "f", "g">>
  /\ last.response = <<"g", "h">>

(***************************************************************************)
(* C25: defineDefaults and defineInterceptors called on a subclass change  *)
(* what that subclass holds and nothing else: the defaults and the         *)
(* interceptors of HttpClient, of the other subclass and of every client   *)
(* constructed before read as they did before the call.                    *)
(***************************************************************************)
DefinedOnSubclass ==
  /\ last'.op \in {"defineDefaults", "defineInterceptors"}
  /\ last'.cls \in Subclasses

SubclassDefineFrame ==
  [][DefinedOnSubclass =>
       /\ \A c \in DOMAIN statics \ {last'.cls} :
            View(heap', statics', instances', ClassOwner(c))
              = View(heap, statics, instances, ClassOwner(c))
       /\ \A i \in Live(instances) :
            /\ i \in Live(instances')
            /\ View(heap', statics', instances', ClientOwner(i))
                 = View(heap, statics, instances, ClientOwner(i))]_vars

\* OtherScraper defined its own defaults while a WebScraper client and an
\* OtherScraper client exist; HttpClient is as it was loaded.
SubclassDefineFrameWitness ==
  /\ last.op = "defineDefaults" /\ last.cls = "OtherScraper"
  /\ Live(instances) = {1, 2}
  /\ {instances[1].cls, instances[2].cls} = {"WebScraper", "OtherScraper"}
  /\ statics["OtherScraper"].defaults # Absent
  /\ View(heap, statics, instances, ClassOwner("OtherScraper")).defaults["delay"] = Num(5)
  /\ View(heap, statics, instances, ClassOwner("HttpClient"))
       = [defaults |-> EmptyConfig, interceptors |-> BaseBundle]


(***************************************************************************)
(* SnapshotSpec: sends in flight while client code calls defineDefaults /  *)
(* defineInterceptors on a class and mutates the defaults and interceptors *)
(* of the senders.  Nothing is collected here: an address tells when its   *)
(* object was allocated.                                                   *)
(***************************************************************************)
\* Class.defineDefaults(config) between two steps of the sends in flight.
DefineDefaultsMeanwhile(c, config) ==
  /\ budget.defines < MaxDefines
  /\ \E r \in {defineDefaults(heap, statics, c, config)} :
       heap' = r.heap /\ statics' = r.statics
  /\ budget' = [budget EXCEPT !.defines = @ + 1]
  /\ last' = [op |-> "defineDefaults", cls |-> c]
  /\ UNCHANGED <<instances, notLineage>>

\* Class.defineInterceptors(interceptors) between two steps of the sends in flight.
DefineInterceptorsMeanwhile(c, interceptors) ==
  /\ budget.defines < MaxDefines
  /\ \E r \in {defineInterceptors(heap, statics, c, interceptors)} :
       heap' = r.heap /\ statics' = r.statics
  /\ budget' = [budget EXCEPT !.defines = @ + 1]
  /\ last' = [op |-> "defineInterceptors", cls |-> c]
  /\ UNCHANGED <<instances, notLineage>>

SnapshotConfigs ==
  {[EmptyConfig EXCEPT !["headers"] = Plain(<<(<<"a", "1">>)>>)],
   [EmptyConfig EXCEPT !["headers"] = Plain(<<(<<"b", "2">>)>>), !["delay"] = Num(5)]}

SnapshotNext ==
  \/ \E i \in DOMAIN flights, o \in Senders, config \in SnapshotConfigs,
        interceptors \in BundleArgs :
       /\ \A j \in 1..(i - 1) : flights[j].pc # "idle"
       /\ FlightSend(i, o, config, interceptors)
  \/ \E i \in DOMAIN flights : FlightFetched(i)
  \/ \E i \in DOMAIN flights : FlightReturned(i)
  \/ \E c \in Classes :
       DefineDefaultsMeanwhile(c, [EmptyConfig EXCEPT
                                     !["headers"] = Plain(<<(<<"a", "3">>)>>),
                                     !["delay"] = Num(7)])
  \/ \E c \in Classes :
       DefineInterceptorsMeanwhile(c, [request |-> Arr(<<"g">>), response |-> Arr(<<"h">>)])
  \/ MutateHeaders(ClientOwner(1), "set", "a")
  \/ MutateDefaults(ClientOwner(1), "set")
  \/ \E side \in {"request", "response"} : MutateInterceptors(ClientOwner(1), side)

SnapshotSpec == SharingInit /\ [][SnapshotNext]_vars

(***************************************************************************)
(* C27: a send fixes its configuration, its interceptor lists and its      *)
(* delay when it is called: they are what the class's and the client's     *)
(* defaults and interceptors give at that moment, and no defineDefaults,   *)
(* defineInterceptors or mutation of the sender's defaults / interceptors  *)
(* made while the send is in flight changes the request it transmits, the  *)
(* interceptors it runs or its delay; a send called afterwards gets the    *)
(* new values.                                                             *)
(***************************************************************************)
\* What call f transmits, runs and waits for.
Snapshot(h, f) ==
  [headers |-> Resolve(h, h[f.request.a].headers).map,
   request |-> Resolve(h, h[f.request.a].interceptors).items,
   response |-> IF f.response = Absent
                  THEN runList(ItemsOf(DeepBundle(h, f.interceptors).response))
                  ELSE Resolve(h, h[f.response.a].interceptors).items,
   delay |-> f.delay]

\* The merged configuration and bundle of a send by o, from what is read
\* through the class and the client at this moment.
SenderClass(inst, o) == IF o.kind = "class" THEN o.cls ELSE inst[o.idx].cls
EffectiveConfig(h, st, inst, o, config) ==
  mergeConfig(View(h, st, inst, ClassOwner(SenderClass(inst, o))).defaults,
              IF o.kind = "class" THEN config
              ELSE mergeConfig(View(h, st, inst, o).defaults, config))
EffectiveBundle(h, st, inst, o, interceptors) ==
  mergeInterceptors(View(h, st, inst, ClassOwner(SenderClass(inst, o))).interceptors,
                    IF o.kind = "class" THEN interceptors
                    ELSE mergeInterceptors(View(h, st, inst, o).interceptors, interceptors))

SnapshotAtCall ==
  \A i \in DOMAIN flights, o \in Senders, config \in SnapshotConfigs,
     interceptors \in BundleArgs :
    FlightSend(i, o, config, interceptors) =>
      Snapshot(heap', flights'[i])
        = [headers |-> EffectiveConfig(heap, statics, instances, o, config)["headers"].map,
           request |-> EffectiveBundle(heap, statics, instances, o, interceptors).request.items,
           response |-> EffectiveBundle(heap, statics, instances, o, interceptors).response.items,
           delay |-> parseDelay(EffectiveConfig(heap, statics, instances, o, config)["delay"]).v]

SnapshotKept ==
  \A i \in DOMAIN flights :
    flights[i].pc # "idle" =>
      /\ flights'[i].pc # "idle"
      /\ Snapshot(heap', flights'[i]) = Snapshot(heap, flights[i])

SendSnapshotsAtCall == [][SnapshotAtCall /\ SnapshotKept]_vars

\* Two sends by the client, the same arguments or not: the first was called
\* before the class defined new defaults and the client's list was pushed to,
\* the second after; the first has its response, and the two differ.
SendSnapshotsAtCallWitness ==
  /\ flights[1].pc = "response" /\ flights[1].by = ClientOwner(1)
  /\ flights[2].pc = "request" /\ flights[2].by = ClientOwner(1)
  /\ budget.defines = 1 /\ budget.mutations = 1
  /\ statics["WebScraper"].defaults.a > flights[1].request.a
  /\ statics["WebScraper"].defaults.a < flights[2].request.a
  /\ flights[1].response.a > flights[2].request.a
  /\ Snapshot(heap, flights[1]).delay = Num(0)
  /\ Snapshot(heap, flights[2]).delay = Num(7)
  /\ Snapshot(heap, flights[1]).headers["a"] = "1"
  /\ Snapshot(heap, flights[2]).headers["a"] = "1"
  /\ Len(Snapshot(heap, flights[2]).request) > Len(Snapshot(heap, flights[1]).request)

=============================================================================
